---- MODULE Spec2Model ----
(***************************************************************************)
(* Model of the capture stabilization pipeline and diff engine of          *)
(* PixelPerfectPOC: ScreenshotService.capturePage, scrollToLoadContent,    *)
(* computeVisualDiff and comparePages.                                     *)
(*                                                                         *)
(* Two variants of the service are in the sources: the named file          *)
(* services/screenshotService.js ("service") and a more elaborate copy     *)
(* ("evolved").  The variable `variant` selects which one a run follows.   *)
(*                                                                         *)
(* An error message is modelled as the set of the text fragments it        *)
(* contains: the code only ever inspects messages with String.includes,    *)
(* and builds new messages by concatenating fragments.                     *)
(***************************************************************************)
EXTENDS Integers, Sequences, FiniteSets, TLC

VARIABLES
  variant,        \* "service" or "evolved"
  options,        \* the options bag shared by both capturePage calls
  cmp,            \* comparePages: "idle", "capturing", "returned", "raised"
  cmpError,       \* message comparePages raised with ({} if none)
  finalResult,    \* <<>> or <<the ComparisonResult>>
  diffStarted,    \* computeVisualDiff has been entered
  pc,             \* per pipeline: position inside capturePage
  page,           \* per pipeline: "none", "open", "closed"
  screenshot,     \* per pipeline: "none" or the strategy whose call produced the buffer
  captureMethod,  \* per pipeline: the local variable captureMethod
  attempts,       \* per pipeline: history of screenshot strategies attempted
  fullPageError,  \* per pipeline: error caught by the inner catch (standard attempt)
  error,          \* per pipeline: error travelling to / caught by the outer catch
  thrown,         \* per pipeline: message capturePage threw ({} if none)
  result,         \* per pipeline: <<>> or <<the CaptureResult>>
  settled,        \* the pipelines whose capturePage has returned or thrown, in that order
  bufferA,        \* diff engine input: first buffer handed to computeVisualDiff
  bufferB,        \* diff engine input: second buffer
  aaPixels,       \* diff engine input: pixels the matcher takes for anti-aliasing
  lastCall,       \* <<>> or <<the last computeVisualDiff call: options and outcome>>
  pageHeight,     \* the page under scrollToLoadContent: its current scroll height
  pageWidth,      \* and scroll width
  scrollPc,       \* scrollToLoadContent: "idle", "loop", "settle", "returned"
  scrollExit,     \* how the scroll loop ended ("none" while it has not)
  lastHeight, lastWidth, currentPosition, scrollStep, scrollAttempts,
  noChangeCount, totalScrollDistance,   \* the locals of scrollToLoadContent
  newHeight,      \* the height measured by the last loop iteration
  grownSteps,     \* number of iterations in which the measured height grew
  browser,        \* this.browser: 0 for null, else the id of the browser launched
  context,        \* this.context: 0 for null, else the id of the browser it belongs to
  launched,       \* number of browsers launched so far (their ids are 1 .. launched)
  liveBrowsers,   \* ids of the browsers that are running
  liveContexts,   \* ids of the contexts that are open
  browserCloses,  \* per browser id: number of close() calls it received
  contextCloses,  \* per context id: number of close() calls it received
  sessionPc,      \* the caller of the service: "idle" or its position inside a call
  sessionOp,      \* the call in progress and what it has done so far
  lastOp,         \* the last call that completed and what it did
  disposed,       \* a cleanup() call has completed
  sessionPages,   \* number of pages opened by capturePage calls on the session
  viewportWidth,  \* this.viewportWidth (0 while undefined)
  viewportHeight, \* this.viewportHeight (0 while undefined)
  contextViewport,\* the viewport <<width, height>> of the context in this.context
  lastViewportCall, \* <<>> or <<the last setViewport call and its outcome>>
  launchedBy,     \* per pipeline: id of the browser its initialize() launched (0 if none)
  pageOf,         \* per pipeline: the page newPage gave it, [id, context] (id 0 if none)
  sessionWriters, \* the pipelines that have assigned this.browser or this.context
  request,        \* the HTTP request being served: [endpoint, options, viewport]
  apiPc,          \* "idle", "received", "comparing" or "responded"
  response,       \* the responses sent for the request, in order
  stabPc,         \* page stabilization of one capture: "idle" or the step it is at
  selectorIndex,  \* dismissCookieBanners: position in cookieSelectors (0 outside the loop)
  probed,         \* the selectors page.$ was called with, in order
  clicked,        \* the button.click calls made: [selector, outcome], in order
  swallowed,      \* the best-effort steps whose failure was caught and dropped
  stabError,      \* the error the stabilization raised ({} if none)
  fullPageDimensions, \* per pipeline: <<the page size measured for the clip>> while in scope
  url,            \* per pipeline: the text of the url capturePage was called with
  cause           \* per pipeline: the browser error a catch replaced by its own ({} if none)

captureVars == <<pc, page, screenshot, captureMethod, attempts, fullPageError,
                 error, thrown, result, settled, fullPageDimensions, cause>>
compareVars == <<cmp, cmpError, finalResult, diffStarted>>
diffVars == <<bufferA, bufferB, aaPixels, lastCall>>
scrollVars == <<pageHeight, pageWidth, scrollPc, scrollExit, lastHeight, lastWidth,
                currentPosition, scrollStep, scrollAttempts, noChangeCount,
                totalScrollDistance, newHeight, grownSteps>>
viewportVars == <<viewportWidth, viewportHeight, contextViewport, lastViewportCall>>
lazyVars == <<launchedBy, pageOf, sessionWriters>>
sessionVars == <<browser, context, launched, liveBrowsers, liveContexts, browserCloses,
                 contextCloses, sessionPc, sessionOp, lastOp, disposed, sessionPages,
                 viewportVars, lazyVars>>
apiVars == <<request, apiPc, response>>
stabVars == <<stabPc, selectorIndex, probed, clicked, swallowed, stabError>>
clipFixed == <<variant, options, diffVars, scrollVars, sessionVars, apiVars, stabVars, url>>
fixedVars == <<clipFixed, fullPageDimensions, cause>>
vars == <<variant, options, cmp, cmpError, finalResult, diffStarted, pc, page,
          screenshot, captureMethod, attempts, fullPageError, error, thrown, result,
          settled, bufferA, bufferB, aaPixels, lastCall,
          pageHeight, pageWidth, scrollPc, scrollExit, lastHeight, lastWidth,
          currentPosition, scrollStep, scrollAttempts, noChangeCount,
          totalScrollDistance, newHeight, grownSteps,
          browser, context, launched, liveBrowsers, liveContexts, browserCloses,
          contextCloses, sessionPc, sessionOp, lastOp, disposed, sessionPages,
          viewportWidth, viewportHeight, contextViewport, lastViewportCall,
          launchedBy, pageOf, sessionWriters, request, apiPc, response,
          stabPc, selectorIndex, probed, clicked, swallowed, stabError,
          fullPageDimensions, url, cause>>

Pipelines == {"A", "B"}
Other(p) == IF p = "A" THEN "B" ELSE "A"
Variants == {"service", "evolved"}
NoError == {}

Methods == {"standard_fullPage", "clip_based_fullPage", "viewport", "fallback_viewport"}

(***************************************************************************)
(* Error messages                                                          *)
(***************************************************************************)
\* Text of the url of pipeline p as it appears inside messages.
UrlText(p) == url[p]

\* A low-level browser-automation error raised at `step`; it may be a page crash.
RawErrors(step) == { {"raw:" \o step}, {"raw:" \o step, "Page crashed"} }

\* The failure signatures page.goto can raise.
NavErrors ==
  { {"raw:goto", "net::ERR_CONNECTION_REFUSED"},
    {"raw:goto", "net::ERR_NAME_NOT_RESOLVED"},
    {"raw:goto", "net::ERR_SSL_PROTOCOL_ERROR"},
    {"raw:goto", "timeout"},
    {"raw:goto", "net::ERR_NAME_NOT_RESOLVED", "timeout"},
    {"raw:goto", "Page crashed"},
    {"raw:goto"} }

\* catch (navError) of page.goto: the message of the error thrown in its place.
NavigationError(p, navError) ==
  IF "net::ERR_CONNECTION_REFUSED" \in navError THEN {"Connection refused"} \cup UrlText(p)
  ELSE IF "net::ERR_NAME_NOT_RESOLVED" \in navError THEN {"Could not resolve hostname"} \cup UrlText(p)
  ELSE IF "net::ERR_SSL_PROTOCOL_ERROR" \in navError THEN {"SSL/TLS error"} \cup UrlText(p)
  ELSE IF "timeout" \in navError THEN {"Navigation timeout"} \cup UrlText(p)
  ELSE {"Navigation failed"} \cup UrlText(p) \cup navError

\* Mutant of EnhanceError: every error gets the generic wrapper.
EnhanceErrorGeneric(p, e) == {"Screenshot capture failed"} \cup UrlText(p) \cup e

\* catch (error) of capturePage: the message of the error capturePage throws.
EnhanceError(p, e) ==
  IF "Connection refused" \in e THEN {"Network Error"} \cup e
  ELSE IF "Could not resolve hostname" \in e THEN {"DNS Error"} \cup e
  ELSE IF "SSL/TLS error" \in e THEN {"Security Error"} \cup e
  ELSE IF "Navigation timeout" \in e THEN {"Timeout Error"} \cup e
  ELSE IF "Required element" \in e THEN {"Content Error"} \cup e
  ELSE IF "Page crashed" \in e THEN {"Stability Error"} \cup e
  ELSE IF "Screenshot capture failed" \in e THEN {"Capture Error"} \cup e
  ELSE {"Screenshot capture failed"} \cup UrlText(p) \cup e

(***************************************************************************)
(* computeVisualDiff                                                       *)
(*                                                                         *)
(* A buffer is a PNG file: it decodes or not, and a decoded image has a    *)
(* width, a height and row-major pixel data, a sequence: pixel i, counted *)
(* from 0, is data[i + 1].                                                 *)
(* Pixels are opaque greys, given by their level 0..255.  Thresholds are   *)
(* in hundredths (10 is the default 0.1); colour distances are scaled by   *)
(* 10000.                                                                  *)
(***************************************************************************)
MaxPixels == 2               \* images of the model have at most this many pixels
MaxImageDimension == 10000   \* if (width > 10000 || height > 10000)

Levels == {0, 15, 128}
Shapes == {sh \in (1..MaxPixels) \X (1..MaxPixels) : sh[1] * sh[2] <= MaxPixels}

\* The pixel data of an image whose pixel i, counted from 0, is f[i].
Raster(f, n) == SubSeq([k \in 1 .. n |-> f[k - 1]], 1, n)
Pixel(img, i) == img.data[i + 1]

Image(w, h, data) ==
  [decodes |-> TRUE, width |-> w, height |-> h, data |-> Raster(data, w * h)]
Corrupt == [decodes |-> FALSE, width |-> 0, height |-> 0, data |-> <<>>]
Images == UNION {{Image(sh[1], sh[2], d) : d \in [0 .. sh[1] * sh[2] - 1 -> Levels]} : sh \in Shapes}
\* What page.screenshot produces in the model: valid images of one colour.
Screenshots == {Image(sh[1], sh[2], [i \in 0 .. sh[1] * sh[2] - 1 |-> l]) : sh \in Shapes, l \in Levels}

Min(a, b) == IF a < b THEN a ELSE b

\* Mutant of MathRound: Math.floor in place of Math.round.
MathFloor(n, d) == n \div d

\* Math.round(n / d) for n >= 0, d > 0 (halves round up).
MathRound(n, d) == (2 * n + d) \div (2 * d)

\* Mutant of Bitblt: the source is copied as one run of pixels, ignoring its row length.
BitbltUnstrided(src, width, height) == [i \in 0 .. width * height - 1 |-> Pixel(src, i)]

\* PNG.bitblt(src, dst, 0, 0, width, height, 0, 0) into a fresh width x height image.
Bitblt(src, width, height) ==
  [i \in 0 .. width * height - 1 |-> Pixel(src, (i \div width) * src.width + (i % width))]

\* The matcher's colour distance of two grey pixels: 0.5053 * (difference of levels)^2.
ColorDelta(a, b) == 5053 * (a - b) * (a - b)

\* The matcher's maxDelta = 35215 * threshold * threshold.
MaxDelta(threshold) == 35215 * threshold * threshold

\* pixelmatch(aCrop.data, bCrop.data, diff.data, width, height, {threshold, includeAA, ...}):
\* a pixel counts as changed when its colour distance exceeds maxDelta, unless
\* anti-aliased pixels are excluded and the matcher takes it for one.
Pixelmatch(img1, img2, width, height, threshold, includeAA, aa) ==
  LET over(i) == ColorDelta(img1[i], img2[i]) > MaxDelta(threshold)
      skipped(i) == ~includeAA /\ i \in aa
  IN [count |-> Cardinality({i \in 0 .. width * height - 1 : over(i) /\ ~skipped(i)}),
      diff |-> [i \in 0 .. width * height - 1 |->
                  IF ~over(i) THEN "dimmed" ELSE IF skipped(i) THEN "antialiased" ELSE "highlight"]]

\* Mutant of OptionThreshold: threshold || 0.1, which turns a requested 0 into the default.
OptionThresholdOrDefault(opts) ==
  IF "threshold" \in DOMAIN opts /\ opts.threshold # 0 THEN opts.threshold ELSE 10

\* Mutant of OptionIncludeAA: anti-aliased pixels are never counted.
OptionIncludeAAOff(opts) == FALSE

\* const { threshold = 0.1, includeAA = true } = options
OptionThreshold(opts) == IF "threshold" \in DOMAIN opts THEN opts.threshold ELSE 10
OptionIncludeAA(opts) == IF "includeAA" \in DOMAIN opts THEN opts.includeAA ELSE TRUE

\* Mutant of DiffError: every failure gets the generic message.
DiffErrorUnclassified(e) == {"Visual diff computation failed"} \cup e

\* catch (error) of computeVisualDiff: the message of the error thrown.
DiffError(e) ==
  IF "Invalid image data" \in e THEN {"Image processing failed", "Invalid or corrupted image data received"}
  ELSE IF "Invalid image dimensions" \in e THEN {"Image processing failed", "Invalid image dimensions"}
  ELSE IF "Image dimensions too large" \in e THEN {"Image processing failed", "Image is too large to process"}
  ELSE IF "Failed to process image data" \in e THEN {"Image processing failed", "Could not extract image data"}
  ELSE IF "Pixel comparison failed" \in e THEN {"Image comparison failed"}
  ELSE {"Visual diff computation failed"} \cup e

DiffFailure(e) == [error |-> DiffError(e), metrics |-> <<>>, images |-> <<>>]

\* Mutant of Metrics: the similarity score is cut off instead of rounded.
MetricsSsimTruncated(width, height, changedPixels, threshold, includeAA) ==
  LET totalPixels == width * height
  IN [width |-> width, height |-> height, totalPixels |-> totalPixels,
      changedPixels |-> changedPixels,
      mismatchPercent |-> MathRound(10000 * changedPixels, totalPixels),
      ssimScore |-> (10000 * (totalPixels - changedPixels)) \div totalPixels,
      threshold |-> threshold, includeAA |-> includeAA]

\* Mutant of Metrics: the pixels that did not change are reported as changed.
MetricsCountingUnchanged(width, height, changedPixels, threshold, includeAA) ==
  LET totalPixels == width * height
  IN [width |-> width, height |-> height, totalPixels |-> totalPixels,
      changedPixels |-> totalPixels - changedPixels,
      mismatchPercent |-> MathRound(10000 * (totalPixels - changedPixels), totalPixels),
      ssimScore |-> MathRound(10000 * changedPixels, totalPixels),
      threshold |-> threshold, includeAA |-> includeAA]

\* The metrics object of a successful diff.  mismatchPercent is kept in hundredths
\* of a percent and ssimScore in ten-thousandths, as the code rounds them.
Metrics(width, height, changedPixels, threshold, includeAA) ==
  LET totalPixels == width * height
  IN [width |-> width, height |-> height, totalPixels |-> totalPixels,
      changedPixels |-> changedPixels,
      mismatchPercent |-> MathRound(10000 * changedPixels, totalPixels),
      ssimScore |-> MathRound(10000 * (totalPixels - changedPixels), totalPixels),
      threshold |-> threshold, includeAA |-> includeAA]

\* computeVisualDiff(bufferA, bufferB, options); aa is the set of pixels of the
\* cropped pair that the matcher takes for anti-aliasing.
ComputeVisualDiff(bufA, bufB, opts, aa) ==
  LET threshold == OptionThreshold(opts)
      includeAA == OptionIncludeAA(opts)
      width == Min(bufA.width, bufB.width)
      height == Min(bufA.height, bufB.height)
  IN IF ~bufA.decodes \/ ~bufB.decodes THEN DiffFailure({"raw:png"})
     ELSE IF width = 0 \/ height = 0 THEN DiffFailure({"Invalid image dimensions"})
     ELSE IF width > MaxImageDimension \/ height > MaxImageDimension
       THEN DiffFailure({"Image dimensions too large"})
     ELSE LET aCrop == Bitblt(bufA, width, height)
              bCrop == Bitblt(bufB, width, height)
              m == Pixelmatch(aCrop, bCrop, width, height, threshold, includeAA, aa)
          IN [error |-> NoError,
              metrics |-> <<Metrics(width, height, m.count, threshold, includeAA)>>,
              images |-> <<[A |-> Image(width, height, aCrop),
                            B |-> Image(width, height, bCrop),
                            diff |-> Image(width, height, m.diff)]>>]

(***************************************************************************)
(* Initial state: a service on which comparePages has not been called yet  *)
(***************************************************************************)
WaitStrategies == {"networkidle", "css"}

\* No HTTP request is being served.
NoRequest == [endpoint |-> "none"]
ApiIdle ==
  /\ request = NoRequest
  /\ apiPc = "idle"
  /\ response = <<>>

\* No page is being stabilized.
StabIdle ==
  /\ stabPc = "idle"
  /\ selectorIndex = 0
  /\ probed = <<>>
  /\ clicked = <<>>
  /\ swallowed = {}
  /\ stabError = NoError

\* The urls of a request whose texts hold none of the words the error handling
\* looks for.
PlainUrls == [p \in Pipelines |-> {"url:" \o p}]

\* No capturePage call is running.
CaptureIdle ==
  /\ cmp = "idle"
  /\ cmpError = NoError
  /\ finalResult = <<>>
  /\ diffStarted = FALSE
  /\ pc = [p \in Pipelines |-> "idle"]
  /\ page = [p \in Pipelines |-> "none"]
  /\ screenshot = [p \in Pipelines |-> "none"]
  /\ captureMethod = [p \in Pipelines |-> "unknown"]
  /\ attempts = [p \in Pipelines |-> <<>>]
  /\ fullPageError = [p \in Pipelines |-> NoError]
  /\ error = [p \in Pipelines |-> NoError]
  /\ thrown = [p \in Pipelines |-> NoError]
  /\ result = [p \in Pipelines |-> <<>>]
  /\ settled = <<>>
  /\ fullPageDimensions = [p \in Pipelines |-> <<>>]
  /\ cause = [p \in Pipelines |-> NoError]

\* computeVisualDiff has not been called.
DiffIdle ==
  /\ aaPixels = {}
  /\ lastCall = <<>>

\* scrollToLoadContent has not been called; the page has its default size.
ScrollIdle ==
  /\ scrollPc = "idle"
  /\ scrollExit = "none"
  /\ pageWidth = 1440
  /\ lastHeight = 0
  /\ lastWidth = 0
  /\ currentPosition = 0
  /\ scrollStep = 0
  /\ scrollAttempts = 0
  /\ noChangeCount = 0
  /\ totalScrollDistance = 0
  /\ newHeight = 0
  /\ grownSteps = 0

MaxLaunches == 3             \* browsers launched in one run of the session model

BrowserIds == 1 .. MaxLaunches

\* What is recorded about a call: its name, whether the session was disposed and
\* whether both fields were null when it began, the running browsers and open
\* contexts at that moment, and the browsers it launched, the close() calls it
\* made and the pages it opened.
OpRecord(name, outcome) ==
  [name |-> name, outcome |-> outcome, wasDisposed |-> disposed,
   wasNull |-> (browser = 0 /\ context = 0),
   liveBefore |-> <<liveBrowsers, liveContexts>>,
   launched |-> 0, closed |-> 0, pages |-> 0]

NoOp == [name |-> "none", outcome |-> "none", wasDisposed |-> FALSE, wasNull |-> TRUE,
         liveBefore |-> <<{}, {}>>, launched |-> 0, closed |-> 0, pages |-> 0]

\* The viewport newContext is given, and the one stored by initialize().
DefaultViewport == <<1440, 900>>
NoViewport == <<0, 0>>
NoPage == [id |-> 0, context |-> 0]

\* No capturePage call has touched the session.
LazyIdle ==
  /\ launchedBy = [p \in Pipelines |-> 0]
  /\ pageOf = [p \in Pipelines |-> NoPage]
  /\ sessionWriters = {}

\* constructor(): this.browser = null; this.context = null
SessionNew ==
  /\ viewportWidth = 0
  /\ viewportHeight = 0
  /\ contextViewport = NoViewport
  /\ lastViewportCall = <<>>
  /\ LazyIdle
  /\ browser = 0
  /\ context = 0
  /\ launched = 0
  /\ liveBrowsers = {}
  /\ liveContexts = {}
  /\ browserCloses = [id \in BrowserIds |-> 0]
  /\ contextCloses = [id \in BrowserIds |-> 0]
  /\ sessionPc = "idle"
  /\ sessionOp = NoOp
  /\ lastOp = NoOp
  /\ disposed = FALSE
  /\ sessionPages = 0

\* The service as its callers use it: constructed, then initialize() awaited.
SessionReady ==
  /\ viewportWidth = DefaultViewport[1]
  /\ viewportHeight = DefaultViewport[2]
  /\ contextViewport = DefaultViewport
  /\ lastViewportCall = <<>>
  /\ LazyIdle
  /\ browser = 1
  /\ context = 1
  /\ launched = 1
  /\ liveBrowsers = {1}
  /\ liveContexts = {1}
  /\ browserCloses = [id \in BrowserIds |-> 0]
  /\ contextCloses = [id \in BrowserIds |-> 0]
  /\ sessionPc = "idle"
  /\ sessionOp = NoOp
  /\ lastOp = [NoOp EXCEPT !.name = "initialize", !.outcome = "returned", !.launched = 1]
  /\ disposed = FALSE
  /\ sessionPages = 0

InitCapture(urls) ==
  /\ variant \in Variants
  /\ options \in [fullPage : BOOLEAN, waitFor : WaitStrategies]
  /\ ApiIdle
  /\ StabIdle
  /\ url \in urls
  /\ CaptureIdle
  /\ bufferA = Corrupt
  /\ bufferB = Corrupt
  /\ DiffIdle
  /\ pageHeight = 0
  /\ ScrollIdle
  /\ SessionReady

Init == InitCapture({PlainUrls})

\* Captures of two urls of which the second may hold the word "timeout", as the
\* host name timeout.example does.
UrlChoices == {[PlainUrls EXCEPT !["B"] = @ \cup extra] : extra \in {{}, {"timeout"}}}
InitUrls == InitCapture(UrlChoices)

(***************************************************************************)
(* capturePage, one action per await                                       *)
(***************************************************************************)
Goes(p, to) == pc' = [pc EXCEPT ![p] = to]

\* An exception raised inside the outer try: control moves to catch (error).
Raise(p, e) ==
  /\ Goes(p, "catch")
  /\ error' = [error EXCEPT ![p] = e]

\* const page = await this.context.newPage()
OpenPage(p) ==
  /\ pc[p] = "start"
  /\ page' = [page EXCEPT ![p] = "open"]
  /\ Goes(p, "setup")
  /\ UNCHANGED <<fixedVars, compareVars, screenshot, captureMethod, attempts,
                 fullPageError, error, thrown, result, settled>>

\* setViewportSize, addInitScript, emulateMedia
SetupPage(p) ==
  /\ pc[p] = "setup"
  /\ \/ Goes(p, "goto") /\ UNCHANGED error
     \/ \E e \in RawErrors("setup") : Raise(p, e)
  /\ UNCHANGED <<fixedVars, compareVars, page, screenshot, captureMethod,
                 attempts, fullPageError, thrown, result, settled>>

\* Mutant of Navigate: a navigation timeout is recorded and page.goto is tried again.
NavigateRetries(p) ==
  /\ pc[p] = "goto"
  /\ \/ Goes(p, "wait") /\ UNCHANGED <<error, cause>>
     \/ \E navError \in NavErrors :
          /\ cause' = [cause EXCEPT ![p] = navError]
          /\ IF "timeout" \in navError
             THEN error' = [error EXCEPT ![p] = NavigationError(p, navError)] /\ UNCHANGED pc
             ELSE Raise(p, NavigationError(p, navError))
  /\ UNCHANGED <<clipFixed, fullPageDimensions, compareVars, page, screenshot, captureMethod,
                 attempts, fullPageError, thrown, result, settled>>

\* page.goto and its catch (navError)
Navigate(p) ==
  /\ pc[p] = "goto"
  /\ \/ Goes(p, "wait") /\ UNCHANGED <<error, cause>>
     \/ \E navError \in NavErrors :
          /\ cause' = [cause EXCEPT ![p] = navError]
          /\ Raise(p, NavigationError(p, navError))
  /\ UNCHANGED <<clipFixed, fullPageDimensions, compareVars, page, screenshot, captureMethod,
                 attempts, fullPageError, thrown, result, settled>>

\* Wait strategy: a network-idle timeout is swallowed, a missing css: selector is not.
WaitFor(p) ==
  /\ pc[p] = "wait"
  /\ \/ Goes(p, "cookies") /\ UNCHANGED <<error, cause>>
     \/ /\ options.waitFor = "css"
        /\ \E e \in RawErrors("selector") : cause' = [cause EXCEPT ![p] = e]
        /\ Raise(p, {"Required element"})
  /\ UNCHANGED <<clipFixed, fullPageDimensions, compareVars, page, screenshot, captureMethod,
                 attempts, fullPageError, thrown, result, settled>>

\* dismissCookieBanners and the mask style tag: failures are swallowed.
Stabilize(p) ==
  /\ pc[p] = "cookies"
  /\ Goes(p, "delay")
  /\ UNCHANGED <<fixedVars, compareVars, page, screenshot, captureMethod,
                 attempts, fullPageError, error, thrown, result, settled>>

\* await page.waitForTimeout(stabilizationDelay)
StabilizationDelay(p) ==
  /\ pc[p] = "delay"
  /\ \/ /\ Goes(p, IF options.fullPage THEN "scroll" ELSE "shot_viewport")
        /\ UNCHANGED error
     \/ \E e \in RawErrors("delay") : Raise(p, e)
  /\ UNCHANGED <<fixedVars, compareVars, page, screenshot, captureMethod,
                 attempts, fullPageError, thrown, result, settled>>

\* scrollToLoadContent (swallows its failures), then in the evolved variant
\* waitForDynamicContent, then the page-dimension measurement and scroll to top.
LoadContent(p) ==
  /\ pc[p] = "scroll"
  /\ \/ Goes(p, "shot_standard") /\ UNCHANGED error
     \/ \E e \in RawErrors("dims") : Raise(p, e)
  /\ UNCHANGED <<fixedVars, compareVars, page, screenshot, captureMethod,
                 attempts, fullPageError, thrown, result, settled>>

(***************************************************************************)
(* The screenshot fallback chain                                           *)
(***************************************************************************)
Attempt(p, strategy, outcome) ==
  attempts' = [attempts EXCEPT ![p] = Append(@, [strategy |-> strategy, outcome |-> outcome])]

\* The outcome of the attempt in progress (the last one begun) becomes known.
Settle(p, outcome) ==
  attempts' = [attempts EXCEPT ![p] = [@ EXCEPT ![Len(@)].outcome = outcome]]

\* Mutant of Captured: the buffer is stored but captureMethod is not assigned.
CapturedUnlabelled(p, method) ==
  /\ screenshot' = [screenshot EXCEPT ![p] = method]
  /\ UNCHANGED captureMethod
  /\ Goes(p, "meta")

\* screenshot = await page.screenshot(...); captureMethod = '<method>'
Captured(p, method) ==
  /\ screenshot' = [screenshot EXCEPT ![p] = method]
  /\ captureMethod' = [captureMethod EXCEPT ![p] = method]
  /\ Goes(p, "meta")

\* Mutant of FallbackGuard: the fallback is tried whether or not fullPage was requested.
FallbackGuardAnyMode(p) ==
  IF variant = "service" THEN screenshot[p] = "none" ELSE captureMethod[p] = "unknown"

\* if (fullPage && !screenshot) in catch (screenshotError); the evolved variant
\* tests captureMethod === 'unknown' instead.
FallbackGuard(p) ==
  /\ options.fullPage
  /\ IF variant = "service" THEN screenshot[p] = "none" ELSE captureMethod[p] = "unknown"

\* catch (screenshotError): either the viewport fallback is tried or the error is rethrown.
ScreenshotCatch(p, screenshotError) ==
  /\ error' = [error EXCEPT ![p] = screenshotError]
  /\ Goes(p, IF FallbackGuard(p) THEN "shot_fallback" ELSE "catch")

\* First, try the standard fullPage option; its failure is caught by the inner catch.
ShotStandard(p) ==
  /\ pc[p] = "shot_standard"
  /\ \/ /\ Captured(p, "standard_fullPage")
        /\ Attempt(p, "standard_fullPage", "ok")
        /\ UNCHANGED <<fullPageError, error>>
     \/ \E e \in RawErrors("standard") :
          /\ fullPageError' = [fullPageError EXCEPT ![p] = e]
          /\ Attempt(p, "standard_fullPage", "failed")
          /\ Goes(p, "clip_measure")
          /\ UNCHANGED <<screenshot, captureMethod, error>>
  /\ UNCHANGED <<fixedVars, compareVars, page, thrown, result, settled>>

\* The page sizes <<width, height>> the DOM measurement can report: an empty
\* document, an ordinary page and a page taller than the size the code warns about.
LargeDimension == 50000      \* if (width > 50000 || height > 50000) console.warn(...)
ClipMeasurements == {<<0, 0>>, <<1440, 3000>>, <<1440, LargeDimension + 10000>>}

\* The evolved variant rejects non-positive measured dimensions before the clip
\* (and only warns about very large ones); the service variant checks nothing.
ClipDimensionsRejected(dims) == variant = "evolved" /\ (dims[1] <= 0 \/ dims[2] <= 0)

\* Alternative: measure the full page dimensions in the DOM.
ClipMeasure(p) ==
  /\ pc[p] = "clip_measure"
  /\ \/ \E dims \in ClipMeasurements :
          IF ClipDimensionsRejected(dims)
          THEN /\ Attempt(p, "clip_based_fullPage", "failed")
               /\ ScreenshotCatch(p, {"Invalid full page dimensions calculated"})
               /\ UNCHANGED fullPageDimensions
          ELSE /\ fullPageDimensions' = [fullPageDimensions EXCEPT ![p] = <<dims>>]
               /\ Attempt(p, "clip_based_fullPage", "pending")
               /\ Goes(p, "clip_shot")
               /\ UNCHANGED error
     \/ \E e \in RawErrors("measure") :
          /\ Attempt(p, "clip_based_fullPage", "failed")
          /\ ScreenshotCatch(p, e)
          /\ UNCHANGED fullPageDimensions
  /\ UNCHANGED <<clipFixed, cause, compareVars, page, screenshot, captureMethod,
                 fullPageError, thrown, result, settled>>

\* page.screenshot clipped to the measured dimensions; the block that holds
\* fullPageDimensions is left either way.
ClipShot(p) ==
  /\ pc[p] = "clip_shot"
  /\ fullPageDimensions' = [fullPageDimensions EXCEPT ![p] = <<>>]
  /\ \/ /\ Captured(p, "clip_based_fullPage")
        /\ Settle(p, "ok")
        /\ UNCHANGED error
     \/ \E e \in RawErrors("clip") :
          /\ Settle(p, "failed")
          /\ ScreenshotCatch(p, e)
          /\ UNCHANGED <<screenshot, captureMethod>>
  /\ UNCHANGED <<clipFixed, cause, compareVars, page, fullPageError, thrown, result,
                 settled>>

\* Viewport capture, when fullPage was not requested.
ShotViewport(p) ==
  /\ pc[p] = "shot_viewport"
  /\ \/ /\ Captured(p, "viewport")
        /\ Attempt(p, "viewport", "ok")
        /\ UNCHANGED error
     \/ \E e \in RawErrors("viewport") :
          /\ Attempt(p, "viewport", "failed")
          /\ ScreenshotCatch(p, e)
          /\ UNCHANGED <<screenshot, captureMethod>>
  /\ UNCHANGED <<fixedVars, compareVars, page, fullPageError, thrown, result, settled>>

\* catch (fallbackError) { throw screenshotError; }
FallbackFailure(screenshotError, fallbackError) == screenshotError

\* Fallback: viewport capture after the full page capture failed.
ShotFallback(p) ==
  /\ pc[p] = "shot_fallback"
  /\ \/ /\ Captured(p, "fallback_viewport")
        /\ Attempt(p, "fallback_viewport", "ok")
        /\ UNCHANGED error
     \/ \E fallbackError \in RawErrors("fallback") :
          /\ Attempt(p, "fallback_viewport", "failed")
          /\ Raise(p, FallbackFailure(error[p], fallbackError))
          /\ UNCHANGED <<screenshot, captureMethod>>
  /\ UNCHANGED <<fixedVars, compareVars, page, fullPageError, thrown, result, settled>>

\* page.title() (failure swallowed), page.url(), the final dimension measurement.
Metadata(p) ==
  /\ pc[p] = "meta"
  /\ \/ Goes(p, "closing") /\ UNCHANGED error
     \/ \E e \in RawErrors("final") : Raise(p, e)
  /\ UNCHANGED <<fixedVars, compareVars, page, screenshot, captureMethod,
                 attempts, fullPageError, thrown, result, settled>>

\* The CaptureResult capturePage returns.
\* The final measurement of the page: its scroll width and height.
FinalDimensions == <<1440, 3000>>

\* { width: this.viewportWidth || 1440, height: this.viewportHeight || 900 }
ConfiguredViewport ==
  <<IF viewportWidth # 0 THEN viewportWidth ELSE 1440,
    IF viewportHeight # 0 THEN viewportHeight ELSE 900>>

\* capturedWidth and capturedHeight of the evolved variant (<<>> in the service
\* variant, whose metadata has no capturedDimensions): chosen by the fullPage option.
CapturedDimensions ==
  IF variant = "service" THEN <<>>
  ELSE IF ~options.fullPage THEN <<ConfiguredViewport>>
  ELSE <<FinalDimensions>>

CaptureResult(p) ==
  [buffer |-> screenshot[p],
   metadata |-> [url |-> UrlText(p),
                 fullPage |-> options.fullPage,
                 capturedDimensions |-> CapturedDimensions,
                 captureMethod |-> captureMethod[p]]]

\* await page.close(); return {...}
ReturnResult(p) ==
  /\ pc[p] = "closing"
  /\ page' = [page EXCEPT ![p] = "closed"]
  /\ result' = [result EXCEPT ![p] = <<CaptureResult(p)>>]
  /\ Goes(p, "returned")
  /\ settled' = Append(settled, p)
  /\ UNCHANGED <<fixedVars, compareVars, screenshot, captureMethod, attempts,
                 fullPageError, error, thrown>>

\* Mutant of PromiseAllRejects: a rejected capture is not propagated.
PromiseAllSwallows(e) == UNCHANGED <<cmp, cmpError>>

\* Promise.all rejects with the first rejection; catch (error) of comparePages rethrows it.
PromiseAllRejects(e) ==
  IF cmp = "capturing"
  THEN cmp' = "raised" /\ cmpError' = e
  ELSE UNCHANGED <<cmp, cmpError>>

\* Mutant of CatchClose: the catch block rethrows without closing the page.
CatchWithoutClose(p) ==
  /\ pc[p] = "catch"
  /\ thrown' = [thrown EXCEPT ![p] = EnhanceError(p, error[p])]
  /\ Goes(p, "threw")
  /\ settled' = Append(settled, p)
  /\ PromiseAllRejects(EnhanceError(p, error[p]))
  /\ UNCHANGED <<fixedVars, finalResult, diffStarted, page, screenshot, captureMethod,
                 attempts, fullPageError, error, result>>

\* catch (error): await page.close(), then throw the enhanced error.
CatchClose(p) ==
  /\ pc[p] = "catch"
  /\ page' = [page EXCEPT ![p] = "closed"]
  /\ thrown' = [thrown EXCEPT ![p] = EnhanceError(p, error[p])]
  /\ Goes(p, "threw")
  /\ settled' = Append(settled, p)
  /\ PromiseAllRejects(EnhanceError(p, error[p]))
  /\ UNCHANGED <<fixedVars, finalResult, diffStarted, screenshot, captureMethod,
                 attempts, fullPageError, error, result>>

(***************************************************************************)
(* comparePages                                                            *)
(***************************************************************************)
\* const [resultA, resultB] = await Promise.all([capturePage(urlA), capturePage(urlB)])
ComparePagesStart ==
  /\ cmp = "idle"
  /\ cmp' = "capturing"
  /\ pc' = [p \in Pipelines |-> "start"]
  /\ UNCHANGED <<fixedVars, cmpError, finalResult, diffStarted, page, screenshot,
                 captureMethod, attempts, fullPageError, error, thrown, result, settled>>

\* Mutant of PromiseAllResolved: the first capture to return resolves the wait.
PromiseAnyResolved == \E p \in Pipelines : pc[p] = "returned"

\* Promise.all resolves once every capturePage has returned.
PromiseAllResolved == \A p \in Pipelines : pc[p] = "returned"

\* { threshold: options.diffThreshold || 0.1, includeAA: options.includeAA !== false }
CompareDiffOptions(opts) ==
  [threshold |-> IF "diffThreshold" \in DOMAIN opts /\ opts.diffThreshold # 0
                 THEN opts.diffThreshold ELSE 10,
   includeAA |-> IF "includeAA" \in DOMAIN opts THEN opts.includeAA ELSE TRUE]

\* resultA / resultB as comparePages reads them; a capture that has not returned
\* has no buffer and no metadata.
ResultOf(p) ==
  IF result[p] # <<>> THEN result[p][1]
  ELSE [buffer |-> "none",
        metadata |-> [url |-> {}, fullPage |-> FALSE, captureMethod |-> "unknown"]]

\* The ComparisonResult comparePages assembles from both captures and the diff.
FinalResult(outcome) ==
  [id |-> "uuid",
   urls |-> [A |-> UrlText("A"), B |-> UrlText("B")],
   metadata |-> [A |-> ResultOf("A").metadata, B |-> ResultOf("B").metadata],
   images |-> outcome.images[1],
   metrics |-> outcome.metrics[1]]

\* A page so tall that its full-page screenshot exceeds the diff engine's limit.
TallScreenshot == Image(1, MaxImageDimension + 1, [i \in 0 .. MaxImageDimension |-> 0])

\* The buffer a capture can hold, by the strategy that produced it.
ScreenshotsBy(method) ==
  IF method \in {"standard_fullPage", "clip_based_fullPage"}
  THEN Screenshots \cup {TallScreenshot}
  ELSE IF method = "none" THEN {Corrupt} ELSE Screenshots

\* The continuation of comparePages after Promise.all: computeVisualDiff, the
\* encoding of the three images, and the return; or the rethrow of the diff's error.
ComparePagesDiff ==
  /\ cmp = "capturing"
  /\ PromiseAllResolved
  /\ \E a \in ScreenshotsBy(ResultOf("A").buffer), b \in ScreenshotsBy(ResultOf("B").buffer) :
       LET opts == CompareDiffOptions(options)
           outcome == ComputeVisualDiff(a, b, opts, {})
       IN /\ bufferA' = a
          /\ bufferB' = b
          /\ lastCall' = <<[options |-> opts, outcome |-> outcome]>>
          /\ diffStarted' = TRUE
          /\ IF outcome.error = NoError
             THEN /\ cmp' = "returned"
                  /\ finalResult' = <<FinalResult(outcome)>>
                  /\ UNCHANGED cmpError
             ELSE /\ cmp' = "raised"
                  /\ cmpError' = outcome.error
                  /\ UNCHANGED finalResult
  /\ UNCHANGED <<variant, options, aaPixels, captureVars, scrollVars, sessionVars, apiVars,
                 stabVars, url>>

\* Any step of the capture pipeline p.
PipelineStep(p) ==
  \/ OpenPage(p) \/ SetupPage(p) \/ Navigate(p) \/ WaitFor(p) \/ Stabilize(p)
  \/ StabilizationDelay(p) \/ LoadContent(p) \/ ShotStandard(p) \/ ClipMeasure(p)
  \/ ClipShot(p) \/ ShotViewport(p) \/ ShotFallback(p) \/ Metadata(p)
  \/ ReturnResult(p) \/ CatchClose(p)

Next ==
  \/ ComparePagesStart
  \/ \E p \in Pipelines : OpenPage(p)
  \/ \E p \in Pipelines : SetupPage(p)
  \/ \E p \in Pipelines : Navigate(p)
  \/ \E p \in Pipelines : WaitFor(p)
  \/ \E p \in Pipelines : Stabilize(p)
  \/ \E p \in Pipelines : StabilizationDelay(p)
  \/ \E p \in Pipelines : LoadContent(p)
  \/ \E p \in Pipelines : ShotStandard(p)
  \/ \E p \in Pipelines : ClipMeasure(p)
  \/ \E p \in Pipelines : ClipShot(p)
  \/ \E p \in Pipelines : ShotViewport(p)
  \/ \E p \in Pipelines : ShotFallback(p)
  \/ \E p \in Pipelines : Metadata(p)
  \/ \E p \in Pipelines : ReturnResult(p)
  \/ \E p \in Pipelines : CatchClose(p)
  \/ ComparePagesDiff

Spec == Init /\ [][Next]_vars
SpecUrls == InitUrls /\ [][Next]_vars

(***************************************************************************)
(* The diff engine alone: computeVisualDiff called repeatedly on one pair  *)
(* of buffers with varying options.                                        *)
(***************************************************************************)
Thresholds == {0, 5, 100}
DiffOptions == [includeAA : BOOLEAN] \cup [threshold : Thresholds, includeAA : BOOLEAN]

CropPixels(a, b) == 0 .. Min(a.width, b.width) * Min(a.height, b.height) - 1

MaxPatternPixels == 4        \* pattern images have at most this many pixels
MaxAAPixels == 2             \* only the first pixels of a pair can be taken for anti-aliasing

PatternShapes == {sh \in (1 .. MaxPatternPixels) \X (1 .. MaxPatternPixels) :
                    sh[1] * sh[2] <= MaxPatternPixels}

\* An image in which every pixel has its own level, and a black image.
Gradient(w, h) == Image(w, h, [i \in 0 .. w * h - 1 |-> 25 * i])
Flat(w, h, level) == Image(w, h, [i \in 0 .. w * h - 1 |-> level])
Patterns == {Gradient(sh[1], sh[2]) : sh \in PatternShapes}
              \cup {Flat(sh[1], sh[2], 0) : sh \in PatternShapes}

\* A black strip of 32 pixels, and the same strip with one grey pixel.
Strip == Flat(32, 1, 0)
StripDot == Image(32, 1, [i \in 0 .. 31 |-> IF i = 0 THEN 128 ELSE 0])

\* An all-white page and the same page with a black square, at one pixel of the
\* model for each 100 x 100 block of an 800 x 600 screenshot.
WhitePage == Flat(8, 6, 255)
WhitePageWithSquare == Image(8, 6, [i \in 0 .. 47 |-> IF i = 19 THEN 0 ELSE 255])

\* A white screenshot of 201 x 100 pixels, and the same with its last pixel black.
LargePage == Flat(201, 100, 255)
LargePageWithDot == Image(201, 100, [i \in 0 .. 20099 |-> IF i = 20099 THEN 0 ELSE 255])

DiffInputs == Images \cup Patterns \cup {Strip, StripDot, WhitePage, WhitePageWithSquare}
                \cup {Corrupt}

\* The pixels of a cropped pair that the matcher may take for anti-aliasing.
AACandidates(a, b) == {i \in CropPixels(a, b) : i < MaxAAPixels}

InitDiff ==
  /\ variant = "service"
  /\ options = [fullPage |-> TRUE, waitFor |-> "networkidle"]
  /\ ApiIdle
  /\ StabIdle
  /\ url = PlainUrls
  /\ CaptureIdle
  /\ bufferA \in DiffInputs
  /\ bufferB \in DiffInputs
  /\ aaPixels \in SUBSET AACandidates(bufferA, bufferB)
  /\ lastCall = <<>>
  /\ pageHeight = 0
  /\ ScrollIdle
  /\ SessionReady

ComputeVisualDiffCall ==
  /\ \E opts \in DiffOptions :
       lastCall' = <<[options |-> opts,
                         outcome |-> ComputeVisualDiff(bufferA, bufferB, opts, aaPixels)]>>
  /\ UNCHANGED <<variant, options, compareVars, captureVars, bufferA, bufferB, aaPixels,
                 scrollVars, sessionVars, apiVars, stabVars, url>>

NextDiff == ComputeVisualDiffCall

SpecDiff == InitDiff /\ [][NextDiff]_vars

\* computeVisualDiff on screenshots of realistic size: the large page against the
\* large page with one pixel changed, next to the pairs of the small pages.
SmallPages == {Strip, StripDot, WhitePage, WhitePageWithSquare}
InitLargeDiff ==
  /\ variant = "service"
  /\ options = [fullPage |-> TRUE, waitFor |-> "networkidle"]
  /\ ApiIdle
  /\ StabIdle
  /\ url = PlainUrls
  /\ CaptureIdle
  /\ \/ /\ bufferA \in SmallPages
        /\ bufferB \in SmallPages
        /\ aaPixels \in SUBSET AACandidates(bufferA, bufferB)
     \/ /\ bufferA = LargePage
        /\ bufferB = LargePageWithDot
        /\ aaPixels = {}
  /\ lastCall = <<>>
  /\ pageHeight = 0
  /\ ScrollIdle
  /\ SessionReady

SpecLargeDiff == InitLargeDiff /\ [][NextDiff]_vars

(***************************************************************************)
(* scrollToLoadContent on one page.  The page decides, each time it is     *)
(* scrolled, what its dimensions become.                                   *)
(***************************************************************************)
MaxInitialHeight == 2        \* initial page heights are 0, 1600, ..., 1600 * MaxInitialHeight

\* The heights a page can have when scrolling starts; the last one is above the
\* height ceiling of either variant.
InitialHeights == {1600 * k : k \in 0 .. MaxInitialHeight} \cup {120000}

\* Mutant of maxScrollAttempts: the evolved variant allows twice as many steps.
maxScrollAttemptsDoubled == IF variant = "service" THEN 20 ELSE 100

\* const maxScrollAttempts = 20 (50 in the evolved variant)
maxScrollAttempts == IF variant = "service" THEN 20 ELSE 50

\* if (lastHeight > 50000) break; (100000 in the evolved variant)
HeightCeiling == IF variant = "service" THEN 50000 ELSE 100000

\* const maxNoChangeCount = 8 (evolved variant only)
maxNoChangeCount == 8

Max(a, b) == IF a > b THEN a ELSE b

\* const scrollStep = Math.min(800, lastHeight / 4); the evolved variant keeps it >= 400.
ScrollStepFor(height) ==
  IF variant = "service" THEN Min(800, height \div 4)
  ELSE Min(800, Max(height \div 4, 400))

\* Mutant of ScrollLoopCondition: the loop is not capped by the attempt counter.
ScrollLoopUncapped == currentPosition < lastHeight

\* Mutant of ScrollLoopCondition: the loop stops one step before the last height.
ScrollLoopStopsShort ==
  currentPosition + scrollStep < lastHeight /\ scrollAttempts < maxScrollAttempts

\* while (currentPosition < lastHeight && scrollAttempts < maxScrollAttempts)
ScrollLoopCondition == currentPosition < lastHeight /\ scrollAttempts < maxScrollAttempts

\* What the page's height and width can become when it is scrolled: unchanged,
\* or grown by a screenful or by a large block of lazy content.
HeightsAfterScroll == {pageHeight, pageHeight + 800, pageHeight + 40000}
WidthsAfterScroll == {pageWidth, 1920}

\* The measurements a scroll step can find: any of the above, or, for a page two
\* screens tall, a reflow that makes it wider and one screen shorter.
MeasurementsAfterScroll ==
  (HeightsAfterScroll \X WidthsAfterScroll)
    \cup (IF pageWidth < 1920 /\ pageHeight = 1600
          THEN {<<pageHeight - 800, 1920>>} ELSE {})

InitScroll ==
  /\ variant \in Variants
  /\ options = [fullPage |-> TRUE, waitFor |-> "networkidle"]
  /\ ApiIdle
  /\ StabIdle
  /\ url = PlainUrls
  /\ CaptureIdle
  /\ bufferA = Corrupt
  /\ bufferB = Corrupt
  /\ DiffIdle
  /\ pageHeight \in InitialHeights
  /\ ScrollIdle
  /\ SessionReady

notScroll == <<variant, options, compareVars, captureVars, diffVars, sessionVars, apiVars,
               stabVars, url>>

\* The initial measurements and the locals set before the loop.
ScrollStart ==
  /\ scrollPc = "idle"
  /\ scrollPc' = "loop"
  /\ lastHeight' = pageHeight
  /\ lastWidth' = pageWidth
  /\ currentPosition' = 0
  /\ scrollStep' = ScrollStepFor(pageHeight)
  /\ scrollAttempts' = 0
  /\ noChangeCount' = 0
  /\ totalScrollDistance' = 0
  /\ UNCHANGED <<notScroll, pageHeight, pageWidth, scrollExit, newHeight, grownSteps>>

\* The loop ends because its condition is false.
ScrollLoopExit ==
  /\ scrollPc = "loop"
  /\ ~ScrollLoopCondition
  /\ scrollPc' = "settle"
  /\ scrollExit' = "condition"
  /\ UNCHANGED <<notScroll, pageHeight, pageWidth, lastHeight, lastWidth, currentPosition,
                 scrollStep, scrollAttempts, noChangeCount, totalScrollDistance, newHeight,
                 grownSteps>>

\* Mutant of ServiceIteration: the loop goes on above the height ceiling.
ServiceIterationNoCeiling(h, w) ==
  LET grew == h > lastHeight \/ w > lastWidth
  IN /\ currentPosition' = currentPosition + scrollStep
     /\ lastHeight' = IF grew THEN h ELSE lastHeight
     /\ lastWidth' = IF grew THEN w ELSE lastWidth
     /\ scrollAttempts' = scrollAttempts + 1
     /\ UNCHANGED <<scrollPc, scrollExit, noChangeCount, totalScrollDistance>>

\* One iteration of the loop of the service variant, the page answering h x w.
ServiceIteration(h, w) ==
  LET grew == h > lastHeight \/ w > lastWidth
      height == IF grew THEN h ELSE lastHeight
  IN /\ currentPosition' = currentPosition + scrollStep
     /\ lastHeight' = height
     /\ lastWidth' = IF grew THEN w ELSE lastWidth
     /\ scrollAttempts' = scrollAttempts + 1
     /\ IF height > HeightCeiling
        THEN scrollPc' = "settle" /\ scrollExit' = "ceiling"
        ELSE UNCHANGED <<scrollPc, scrollExit>>
     /\ UNCHANGED <<noChangeCount, totalScrollDistance>>

\* Mutant of NextNoChangeCount: growth does not reset the counter.
NextNoChangeCountNoReset(grew) == noChangeCount + 1

\* noChangeCount = 0 in the growth branch, noChangeCount++ in the other.
NextNoChangeCount(grew) == IF grew THEN 0 ELSE noChangeCount + 1

\* One iteration of the loop of the evolved variant; bottom is the height the page
\* reports when the long-distance check scrolls to its very bottom.
EvolvedIteration(h, w, bottom) ==
  LET grew == h > lastHeight \/ w > lastWidth
      height == IF grew THEN h ELSE lastHeight
      position == IF grew THEN Min(currentPosition + scrollStep, height - scrollStep)
                  ELSE currentPosition + scrollStep
      count == NextNoChangeCount(grew)
      distance == totalScrollDistance + scrollStep
  IN /\ currentPosition' = position
     /\ totalScrollDistance' = distance
     /\ lastWidth' = IF grew THEN w ELSE lastWidth
     /\ IF ~grew /\ count >= maxNoChangeCount
        THEN /\ scrollPc' = "settle" /\ scrollExit' = "noChange"
             /\ noChangeCount' = count
             /\ UNCHANGED <<scrollAttempts, lastHeight>>
        ELSE /\ scrollAttempts' = scrollAttempts + 1
             /\ IF height > HeightCeiling
                THEN /\ scrollPc' = "settle" /\ scrollExit' = "ceiling"
                     /\ noChangeCount' = count
                     /\ lastHeight' = height
                ELSE IF distance > 50000 /\ scrollAttempts + 1 > 20
                THEN IF bottom > height
                     THEN /\ lastHeight' = bottom
                          /\ noChangeCount' = 0
                          /\ UNCHANGED <<scrollPc, scrollExit>>
                     ELSE /\ scrollPc' = "settle" /\ scrollExit' = "bottom"
                          /\ noChangeCount' = count
                          /\ lastHeight' = height
                ELSE /\ noChangeCount' = count
                     /\ lastHeight' = height
                     /\ UNCHANGED <<scrollPc, scrollExit>>

\* One pass through the loop body: scroll, wait, measure, decide; the page answers
\* with one of the given measurements.
ScrollIterationOn(measurements) ==
  /\ scrollPc = "loop"
  /\ ScrollLoopCondition
  /\ \E measured \in measurements :
       LET h == measured[1]
           w == measured[2]
       IN /\ pageHeight' = h
          /\ pageWidth' = w
          /\ newHeight' = h
          /\ grownSteps' = IF h > lastHeight THEN grownSteps + 1 ELSE grownSteps
          /\ IF variant = "service" THEN ServiceIteration(h, w)
             ELSE \E bottom \in {h, h + 800} : EvolvedIteration(h, w, bottom)
  /\ UNCHANGED <<notScroll, scrollStep>>

ScrollIteration == ScrollIterationOn(MeasurementsAfterScroll)

\* Scroll back to top, the final settle delay and the final measurement.
ScrollSettle ==
  /\ scrollPc = "settle"
  /\ scrollPc' = "returned"
  /\ UNCHANGED <<notScroll, pageHeight, pageWidth, scrollExit, lastHeight, lastWidth,
                 currentPosition, scrollStep, scrollAttempts, noChangeCount,
                 totalScrollDistance, newHeight, grownSteps>>

\* Any page call inside scrollToLoadContent throws: catch (e) logs and returns.
ScrollFails ==
  /\ scrollPc \in {"idle", "loop", "settle"}
  /\ scrollPc' = "returned"
  /\ scrollExit' = IF scrollExit = "none" THEN "error" ELSE scrollExit
  /\ UNCHANGED <<notScroll, pageHeight, pageWidth, lastHeight, lastWidth, currentPosition,
                 scrollStep, scrollAttempts, noChangeCount, totalScrollDistance, newHeight,
                 grownSteps>>

NextScroll == ScrollStart \/ ScrollIteration \/ ScrollLoopExit \/ ScrollSettle \/ ScrollFails

SpecScroll == InitScroll /\ [][NextScroll]_vars

\* Every pending browser call completes (or fails): the scroll keeps being scheduled.
FairSpecScroll == SpecScroll /\ WF_vars(NextScroll)

(***************************************************************************)
(* scrollToLoadContent on a page whose dimensions never change and whose   *)
(* browser calls do not fail.                                              *)
(***************************************************************************)
MaxStaticScreens == 12       \* static pages are 0, 800, ..., 800 * MaxStaticScreens tall

StaticHeights == {800 * k : k \in 0 .. MaxStaticScreens}

InitStatic ==
  /\ variant \in Variants
  /\ options = [fullPage |-> TRUE, waitFor |-> "networkidle"]
  /\ ApiIdle
  /\ StabIdle
  /\ url = PlainUrls
  /\ CaptureIdle
  /\ bufferA = Corrupt
  /\ bufferB = Corrupt
  /\ DiffIdle
  /\ pageHeight \in StaticHeights
  /\ ScrollIdle
  /\ SessionReady

\* A pass through the loop body on a page that measures what it measured before.
StaticScrollIteration == ScrollIterationOn({<<pageHeight, pageWidth>>})

NextStatic == ScrollStart \/ StaticScrollIteration \/ ScrollLoopExit \/ ScrollSettle

SpecStatic == InitStatic /\ [][NextStatic]_vars

(***************************************************************************)
(* The session: initialize, the opening of a page by capturePage, and      *)
(* cleanup, called one after the other on a freshly constructed service.   *)
(***************************************************************************)
MaxSessionPages == 2         \* capturePage calls made in one run of the session model

notSession == <<variant, options, compareVars, captureVars, diffVars, scrollVars, apiVars,
                stabVars, url>>

InitSession ==
  /\ variant = "service"
  /\ options = [fullPage |-> TRUE, waitFor |-> "networkidle"]
  /\ ApiIdle
  /\ StabIdle
  /\ url = PlainUrls
  /\ CaptureIdle
  /\ bufferA = Corrupt
  /\ bufferB = Corrupt
  /\ DiffIdle
  /\ pageHeight = 0
  /\ ScrollIdle
  /\ SessionNew

\* The call in progress completes with `outcome`.
Finish(op, outcome) ==
  /\ lastOp' = [op EXCEPT !.outcome = outcome]
  /\ sessionOp' = NoOp
  /\ sessionPc' = "idle"

\* initialize() is entered: if (this.browser) return; otherwise chromium.launch is awaited.
EnterInitialize(op) ==
  IF browser # 0
  THEN IF op.name = "initialize"
       THEN Finish(op, "returned")
       ELSE sessionOp' = op /\ sessionPc' = "newPage" /\ UNCHANGED lastOp
  ELSE /\ launched < MaxLaunches
       /\ sessionOp' = op /\ sessionPc' = "launching" /\ UNCHANGED lastOp

\* A caller awaits initialize().
InitializeCall ==
  /\ sessionPc = "idle"
  /\ EnterInitialize(OpRecord("initialize", "none"))
  /\ UNCHANGED <<notSession, lazyVars, viewportVars, browser, context, launched,
                 liveBrowsers, liveContexts, browserCloses, contextCloses, disposed,
                 sessionPages>>

\* this.browser = await chromium.launch(...)
Launch ==
  /\ sessionPc = "launching"
  /\ launched' = launched + 1
  /\ browser' = launched + 1
  /\ liveBrowsers' = liveBrowsers \cup {launched + 1}
  /\ sessionOp' = [sessionOp EXCEPT !.launched = @ + 1]
  /\ sessionPc' = "creating"
  /\ UNCHANGED <<notSession, lazyVars, viewportVars, context, liveContexts,
                 browserCloses, contextCloses, lastOp, disposed, sessionPages>>

\* this.context = await this.browser.newContext(...); the call can fail.
CreateContext ==
  /\ sessionPc = "creating"
  /\ \/ /\ context' = browser
        /\ liveContexts' = liveContexts \cup {browser}
        /\ contextViewport' = DefaultViewport
        /\ viewportWidth' = DefaultViewport[1]
        /\ viewportHeight' = DefaultViewport[2]
        /\ IF sessionOp.name = "initialize"
           THEN Finish(sessionOp, "returned")
           ELSE sessionPc' = "newPage" /\ UNCHANGED <<sessionOp, lastOp>>
     \/ /\ Finish(sessionOp, "raised")
        /\ UNCHANGED <<context, liveContexts, contextViewport, viewportWidth, viewportHeight>>
  /\ UNCHANGED <<notSession, lazyVars, lastViewportCall, browser, launched,
                 liveBrowsers, browserCloses, contextCloses, disposed, sessionPages>>

\* A caller awaits capturePage(): if (!this.context) await this.initialize();
CapturePageCall ==
  /\ sessionPc = "idle"
  /\ sessionPages < MaxSessionPages
  /\ IF context = 0
     THEN EnterInitialize(OpRecord("capturePage", "none"))
     ELSE /\ sessionOp' = OpRecord("capturePage", "none")
          /\ sessionPc' = "newPage"
          /\ UNCHANGED lastOp
  /\ UNCHANGED <<notSession, lazyVars, viewportVars, browser, context, launched,
                 liveBrowsers, liveContexts, browserCloses, contextCloses, disposed,
                 sessionPages>>

\* const page = await this.context.newPage(), outside the try; the rest of
\* capturePage works on that page and closes it.
NewPage ==
  /\ sessionPc = "newPage"
  /\ IF context = 0
     THEN Finish(sessionOp, "TypeError") /\ UNCHANGED sessionPages
     ELSE /\ sessionPages' = sessionPages + 1
          /\ Finish([sessionOp EXCEPT !.pages = @ + 1], "page opened")
  /\ UNCHANGED <<notSession, lazyVars, viewportVars, browser, context, launched,
                 liveBrowsers, liveContexts, browserCloses, contextCloses, disposed>>

\* A caller awaits cleanup().
CleanupCall ==
  /\ sessionPc = "idle"
  /\ sessionOp' = OpRecord("cleanup", "none")
  /\ sessionPc' = "closingContext"
  /\ UNCHANGED <<notSession, lazyVars, viewportVars, browser, context, launched,
                 liveBrowsers, liveContexts, browserCloses, contextCloses, lastOp,
                 disposed, sessionPages>>

\* if (this.context) { await this.context.close(); this.context = null; }
CleanupContext ==
  /\ sessionPc = "closingContext"
  /\ IF context # 0
     THEN /\ contextCloses' = [contextCloses EXCEPT ![context] = @ + 1]
          /\ liveContexts' = liveContexts \ {context}
          /\ context' = 0
          /\ contextViewport' = NoViewport
          /\ sessionOp' = [sessionOp EXCEPT !.closed = @ + 1]
     ELSE UNCHANGED <<contextCloses, liveContexts, context, contextViewport, sessionOp>>
  /\ sessionPc' = "closingBrowser"
  /\ UNCHANGED <<notSession, lazyVars, viewportWidth, viewportHeight, lastViewportCall,
                 browser, launched, liveBrowsers, browserCloses, lastOp, disposed,
                 sessionPages>>

\* Mutant of CleanupBrowser: the browser is closed but this.browser is not cleared.
CleanupBrowserKeepsField ==
  /\ sessionPc = "closingBrowser"
  /\ IF browser # 0
     THEN /\ browserCloses' = [browserCloses EXCEPT ![browser] = @ + 1]
          /\ liveBrowsers' = liveBrowsers \ {browser}
          /\ Finish([sessionOp EXCEPT !.closed = @ + 1], "returned")
     ELSE /\ Finish(sessionOp, "returned")
          /\ UNCHANGED <<browserCloses, liveBrowsers>>
  /\ disposed' = TRUE
  /\ UNCHANGED <<notSession, lazyVars, viewportVars, browser, context, launched,
                 liveContexts, contextCloses, sessionPages>>

\* if (this.browser) { await this.browser.close(); this.browser = null; }
CleanupBrowser ==
  /\ sessionPc = "closingBrowser"
  /\ IF browser # 0
     THEN /\ browserCloses' = [browserCloses EXCEPT ![browser] = @ + 1]
          /\ liveBrowsers' = liveBrowsers \ {browser}
          /\ browser' = 0
          /\ Finish([sessionOp EXCEPT !.closed = @ + 1], "returned")
     ELSE /\ Finish(sessionOp, "returned")
          /\ UNCHANGED <<browserCloses, liveBrowsers, browser>>
  /\ disposed' = TRUE
  /\ UNCHANGED <<notSession, lazyVars, viewportVars, context, launched, liveContexts,
                 contextCloses, sessionPages>>

\* The widths and heights a caller passes to setViewport.
ViewportRequests == {<<0, 768>>, <<768, 0>>, <<768, 1024>>, <<10000, 10000>>,
                     <<10001, 768>>, <<768, 10001>>}

\* The checks of setViewport: the message of the validation error, {} if none.
ViewportValidation(width, height) ==
  IF width <= 0 \/ height <= 0 THEN {"Viewport dimensions must be positive numbers"}
  ELSE IF width > 10000 \/ height > 10000 THEN {"Viewport dimensions too large"}
  ELSE {}

ViewportState == <<viewportWidth, viewportHeight, contextViewport>>

\* A caller awaits setViewport(width, height): the checks, then
\* await this.context.setViewportSize({ width, height }), which can throw (and does
\* when this.context is null), then the two assignments.
SetViewportCall ==
  /\ sessionPc = "idle"
  /\ \E requested \in ViewportRequests :
       LET width == requested[1]
           height == requested[2]
           invalid == ViewportValidation(width, height)
           call(outcome, after) == <<[width |-> width, height |-> height,
                                      outcome |-> outcome, before |-> ViewportState,
                                      after |-> after]>>
       IN IF invalid # {}
          THEN /\ lastViewportCall' = call(invalid, ViewportState)
               /\ UNCHANGED <<viewportWidth, viewportHeight, contextViewport>>
          ELSE IF context = 0
          THEN /\ lastViewportCall' = call({"TypeError"}, ViewportState)
               /\ UNCHANGED <<viewportWidth, viewportHeight, contextViewport>>
          ELSE \/ /\ contextViewport' = <<width, height>>
                  /\ viewportWidth' = width
                  /\ viewportHeight' = height
                  /\ lastViewportCall' = call({}, <<width, height, <<width, height>>>>)
               \/ /\ lastViewportCall' = call({"raw:setViewportSize"}, ViewportState)
                  /\ UNCHANGED <<viewportWidth, viewportHeight, contextViewport>>
  /\ UNCHANGED <<notSession, lazyVars, browser, context, launched, liveBrowsers,
                 liveContexts, browserCloses, contextCloses, sessionPc, sessionOp, lastOp,
                 disposed, sessionPages>>

NextSession ==
  \/ InitializeCall \/ Launch \/ CreateContext \/ CapturePageCall \/ NewPage
  \/ CleanupCall \/ CleanupContext \/ CleanupBrowser \/ SetViewportCall

SpecSession == InitSession /\ [][NextSession]_vars

(***************************************************************************)
(* comparePages on a session that may lack its browser: the two            *)
(* capturePage calls start in the same turn of the event loop, each runs   *)
(* up to its first pending await, and the awaited browser calls then       *)
(* complete in any order.  A context gets the id of its browser.           *)
(***************************************************************************)
InitLazy ==
  /\ variant = "service"
  /\ options = [fullPage |-> TRUE, waitFor |-> "networkidle"]
  /\ ApiIdle
  /\ StabIdle
  /\ url = PlainUrls
  /\ CaptureIdle
  /\ bufferA = Corrupt
  /\ bufferB = Corrupt
  /\ DiffIdle
  /\ pageHeight = 0
  /\ ScrollIdle
  /\ SessionNew \/ SessionReady

lazyFixed == <<variant, options, compareVars, screenshot, captureMethod, attempts,
               fullPageDimensions,
               fullPageError, error, result, settled, diffVars, scrollVars, apiVars, stabVars,
               url, cause,
               lastViewportCall, browserCloses, contextCloses, sessionPc, sessionOp,
               lastOp, disposed>>

\* Where capturePage stands once it has run to its first pending await:
\* if (!this.context) await this.initialize(), and in initialize
\* if (this.browser) return, else chromium.launch is pending.
LazyEntry ==
  IF context # 0 \/ browser # 0 THEN "newPage" ELSE "launching"

\* Promise.all([this.capturePage(urlA, options), this.capturePage(urlB, options)]):
\* both calls are made before any awaited call completes.
LazyComparePages ==
  /\ sessionPc = "idle"
  /\ \A p \in Pipelines : pc[p] \in {"idle", "returned", "threw"}
  /\ sessionPages + 2 <= 2 * MaxSessionPages
  /\ LazyEntry = "launching" => launched + 2 <= MaxLaunches
  /\ pc' = [p \in Pipelines |-> LazyEntry]
  /\ page' = [p \in Pipelines |-> "none"]
  /\ thrown' = [p \in Pipelines |-> NoError]
  /\ launchedBy' = [p \in Pipelines |-> 0]
  /\ pageOf' = [p \in Pipelines |-> NoPage]
  /\ sessionWriters' = {}
  /\ UNCHANGED <<lazyFixed, browser, context, launched, liveBrowsers, liveContexts,
                 sessionPages, viewportWidth, viewportHeight, contextViewport>>

\* this.browser = await chromium.launch(...) of pipeline p's initialize(), which
\* goes on to call this.browser.newContext(...).
LazyLaunch(p) ==
  /\ pc[p] = "launching"
  /\ launched' = launched + 1
  /\ browser' = launched + 1
  /\ liveBrowsers' = liveBrowsers \cup {launched + 1}
  /\ launchedBy' = [launchedBy EXCEPT ![p] = launched + 1]
  /\ sessionWriters' = sessionWriters \cup {p}
  /\ Goes(p, "creating")
  /\ UNCHANGED <<lazyFixed, page, thrown, pageOf, context, liveContexts, sessionPages,
                 viewportWidth, viewportHeight, contextViewport>>

\* this.context = await this.browser.newContext(...) of pipeline p's initialize(),
\* then the stored viewport; a rejection leaves initialize() and capturePage.
LazyCreateContext(p) ==
  /\ pc[p] = "creating"
  /\ \/ /\ context' = launchedBy[p]
        /\ liveContexts' = liveContexts \cup {launchedBy[p]}
        /\ contextViewport' = DefaultViewport
        /\ viewportWidth' = DefaultViewport[1]
        /\ viewportHeight' = DefaultViewport[2]
        /\ Goes(p, "newPage")
        /\ UNCHANGED thrown
     \/ /\ thrown' = [thrown EXCEPT ![p] = {"raw:newContext"}]
        /\ Goes(p, "threw")
        /\ UNCHANGED <<context, liveContexts, contextViewport, viewportWidth,
                       viewportHeight>>
  /\ UNCHANGED <<lazyFixed, page, pageOf, launchedBy, sessionWriters, browser, launched,
                 liveBrowsers, sessionPages>>

\* const page = await this.context.newPage() of pipeline p, outside the try.
LazyNewPage(p) ==
  /\ pc[p] = "newPage"
  /\ IF context = 0
     THEN /\ thrown' = [thrown EXCEPT ![p] = {"TypeError"}]
          /\ Goes(p, "threw")
          /\ UNCHANGED <<page, pageOf, sessionPages>>
     ELSE /\ sessionPages' = sessionPages + 1
          /\ pageOf' = [pageOf EXCEPT ![p] = [id |-> sessionPages + 1, context |-> context]]
          /\ page' = [page EXCEPT ![p] = "open"]
          /\ Goes(p, "setup")
          /\ UNCHANGED thrown
  /\ UNCHANGED <<lazyFixed, launchedBy, sessionWriters, browser, context, launched,
                 liveBrowsers, liveContexts, viewportWidth, viewportHeight,
                 contextViewport>>

\* The rest of capturePage on the page of pipeline p: it returns a result or throws,
\* and the page is closed either way.
LazyCapture(p) ==
  /\ pc[p] = "setup"
  /\ page' = [page EXCEPT ![p] = "closed"]
  /\ \/ Goes(p, "returned") /\ UNCHANGED thrown
     \/ /\ Goes(p, "threw")
        /\ thrown' = [thrown EXCEPT ![p] = EnhanceError(p, {"raw:setup"})]
  /\ UNCHANGED <<lazyFixed, pageOf, launchedBy, sessionWriters, browser, context,
                 launched, liveBrowsers, liveContexts, sessionPages, viewportWidth,
                 viewportHeight, contextViewport>>

\* A caller awaits cleanup() after comparePages has settled.
LazyCleanupCall ==
  /\ \A p \in Pipelines : pc[p] \in {"returned", "threw"}
  /\ CleanupCall

NextLazy ==
  \/ LazyComparePages
  \/ \E p \in Pipelines : LazyLaunch(p)
  \/ \E p \in Pipelines : LazyCreateContext(p)
  \/ \E p \in Pipelines : LazyNewPage(p)
  \/ \E p \in Pipelines : LazyCapture(p)
  \/ LazyCleanupCall \/ CleanupContext \/ CleanupBrowser

SpecLazy == InitLazy /\ [][NextLazy]_vars

(***************************************************************************)
(* The HTTP server: POST /api/compare-ui and POST /api/compare-multi.      *)
(* One request is served; comparePages is taken by its outcomes, an error  *)
(* of a capture or the result of computeVisualDiff on the two screenshots. *)
(* diffThreshold is in hundredths, timeouts and delays in milliseconds.    *)
(***************************************************************************)
Endpoints == {"compare-ui", "compare-multi"}
RequestFields == {"diffThreshold", "timeout", "stabilizationDelay"}
RequestThresholds == {-50, 0, 5, 100, 150}
RequestTimeouts == {0, 30000, 120000, 600000}
RequestDelays == {500, 5000, 60000}

FieldValues(f) ==
  IF f = "diffThreshold" THEN RequestThresholds
  ELSE IF f = "timeout" THEN RequestTimeouts
  ELSE RequestDelays

\* req.body.options: each field is given or left out.
RequestOptions ==
  UNION { {o \in [D -> RequestThresholds \cup RequestTimeouts \cup RequestDelays] :
             \A f \in D : o[f] \in FieldValues(f)} : D \in SUBSET RequestFields }

\* The viewport of a compare-multi request.
RequestViewports == {[width |-> 1440, height |-> 900], [width |-> 0, height |-> 844]}

Requests == [endpoint : Endpoints, options : RequestOptions, viewport : RequestViewports]

\* opts[f] || default: a field left out, or given as 0, yields the default.
OrDefault(opts, f, default) ==
  IF f \in DOMAIN opts /\ opts[f] # 0 THEN opts[f] ELSE default

\* compare-ui: const comparisonOptions = { ... }
CompareUiOptions(opts) ==
  [waitFor |-> "networkidle",
   fullPage |-> TRUE,
   diffThreshold |-> Min(Max(OrDefault(opts, "diffThreshold", 10), 0), 100),
   includeAA |-> TRUE,
   timeout |-> Min(OrDefault(opts, "timeout", 45000), 120000),
   stabilizationDelay |-> Min(OrDefault(opts, "stabilizationDelay", 1000), 5000)]

\* compare-multi: { ...options, viewport: viewport }
CompareMultiOptions(opts, viewport) ==
  [f \in DOMAIN opts \cup {"viewport"} |-> IF f = "viewport" THEN viewport ELSE opts[f]]

\* error.message.includes(text), for the texts the compare-ui handler looks for.
MessageIncludes(e, text) ==
  IF text = "net::"
  THEN e \cap {"net::ERR_CONNECTION_REFUSED", "net::ERR_NAME_NOT_RESOLVED",
               "net::ERR_SSL_PROTOCOL_ERROR"} # {}
  ELSE IF text = "timeout" THEN e \cap {"timeout", "Navigation timeout"} # {}
  ELSE text \in e

\* catch (error) of the compare-ui handler: the status and the code of the response.
CompareUiErrorCode(e) ==
  IF MessageIncludes(e, "net::") THEN [status |-> 400, code |-> "NETWORK_ERROR"]
  ELSE IF MessageIncludes(e, "timeout") THEN [status |-> 408, code |-> "TIMEOUT_ERROR"]
  ELSE IF MessageIncludes(e, "Navigation failed")
    THEN [status |-> 400, code |-> "NAVIGATION_ERROR"]
  ELSE [status |-> 500, code |-> "COMPARISON_FAILED"]

\* The errors capturePage throws, as comparePages rethrows them.
CaptureFailures ==
  LET raised(p) == {NavigationError(p, navError) : navError \in NavErrors}
                     \cup {{"Required element"}}
                     \cup UNION {RawErrors(step) :
                                  step \in {"setup", "delay", "dims", "viewport", "final"}}
  IN UNION {{EnhanceError(p, e) : e \in raised(p)} : p \in Pipelines}

Response(status, code, e, res, list) ==
  [status |-> status, code |-> code, error |-> e, result |-> res, results |-> list]

\* res.status(statusCode).json({ error, code, ... }) of compare-ui;
\* results.push({ viewport, error, failed: true }) and res.json of compare-multi.
ErrorResponse(e) ==
  IF request.endpoint = "compare-ui"
  THEN Response(CompareUiErrorCode(e).status, CompareUiErrorCode(e).code, e, <<>>, <<>>)
  ELSE Response(200, "none", {}, <<>>, <<[failed |-> TRUE, error |-> e]>>)

\* res.json(result) of compare-ui; results.push(result) and res.json of compare-multi.
ResultResponse(res) ==
  IF request.endpoint = "compare-ui"
  THEN Response(200, "none", {}, <<res>>, <<>>)
  ELSE Response(200, "none", {}, <<>>, <<[failed |-> FALSE, result |-> res]>>)

\* The screenshots the two captures of the request produce when they succeed.
ApiScreenshots == {Corrupt, WhitePage, WhitePageWithSquare}

InitApi ==
  /\ variant \in Variants
  /\ options = [fullPage |-> TRUE, waitFor |-> "networkidle"]
  /\ request \in Requests
  /\ apiPc = "received"
  /\ response = <<>>
  /\ StabIdle
  /\ url = PlainUrls
  /\ CaptureIdle
  /\ bufferA \in ApiScreenshots
  /\ bufferB = WhitePage
  /\ DiffIdle
  /\ pageHeight = 0
  /\ ScrollIdle
  /\ SessionReady

notApi == <<variant, compareVars, captureVars, bufferA, bufferB, aaPixels, scrollVars,
            sessionVars, stabVars, url>>

\* POST /api/compare-ui up to the call of comparePages.
CompareUiHandler ==
  /\ apiPc = "received"
  /\ request.endpoint = "compare-ui"
  /\ options' = CompareUiOptions(request.options)
  /\ apiPc' = "comparing"
  /\ UNCHANGED <<notApi, request, response, lastCall>>

\* POST /api/compare-multi with one viewport, up to the call of comparePages:
\* the session is replaced, then setViewport is awaited; its failure is recorded
\* as the viewport's result.
CompareMultiHandler ==
  /\ apiPc = "received"
  /\ request.endpoint = "compare-multi"
  /\ LET invalid == ViewportValidation(request.viewport.width, request.viewport.height)
         failed(e) ==
           /\ response' = <<Response(200, "none", {}, <<>>,
                                     <<[failed |-> TRUE,
                                        error |-> {"Viewport configuration failed"} \cup e]>>)>>
           /\ apiPc' = "responded"
           /\ UNCHANGED options
     IN IF invalid # {} THEN failed(invalid)
        ELSE \/ /\ options' = CompareMultiOptions(request.options, request.viewport)
                /\ apiPc' = "comparing"
                /\ UNCHANGED response
             \/ failed({"raw:setViewportSize"})
  /\ UNCHANGED <<notApi, request, lastCall>>

\* await comparePages(...) throws the error of a capture.
ComparePagesRaises ==
  /\ apiPc = "comparing"
  /\ \E e \in CaptureFailures : response' = Append(response, ErrorResponse(e))
  /\ apiPc' = "responded"
  /\ UNCHANGED <<notApi, options, request, lastCall>>

\* Both captures returned: comparePages calls computeVisualDiff and returns its
\* result or throws its error.
ComparePagesSettles ==
  /\ apiPc = "comparing"
  /\ LET opts == CompareDiffOptions(options)
         outcome == ComputeVisualDiff(bufferA, bufferB, opts, {})
     IN /\ lastCall' = <<[options |-> opts, outcome |-> outcome]>>
        /\ response' = Append(response,
                              IF outcome.error = NoError
                              THEN ResultResponse(FinalResult(outcome))
                              ELSE ErrorResponse(outcome.error))
  /\ apiPc' = "responded"
  /\ UNCHANGED <<notApi, options, request>>

NextApi ==
  \/ CompareUiHandler \/ CompareMultiHandler \/ ComparePagesRaises \/ ComparePagesSettles

SpecApi == InitApi /\ [][NextApi]_vars

(***************************************************************************)
(* Page stabilization inside capturePage: the wait strategy, the cookie    *)
(* banner dismissal, the mask style tag, the stabilization delay and the   *)
(* lazy-load scroll, one action per step, up to the first screenshot call. *)
(***************************************************************************)
NumSelectors == 10           \* cookieSelectors has ten entries
MaxFailedClicks == 2         \* button.click fails at most this often on one page

BestEffortSteps == {"networkidle", "cookies", "mask", "scroll"}

InitStabilize ==
  /\ variant \in Variants
  /\ options \in [fullPage : BOOLEAN, waitFor : WaitStrategies]
  /\ ApiIdle
  /\ stabPc = "wait"
  /\ selectorIndex = 0
  /\ probed = <<>>
  /\ clicked = <<>>
  /\ swallowed = {}
  /\ stabError = NoError
  /\ url = PlainUrls
  /\ CaptureIdle
  /\ bufferA = Corrupt
  /\ bufferB = Corrupt
  /\ DiffIdle
  /\ pageHeight = 0
  /\ ScrollIdle
  /\ SessionReady

notStab == <<variant, options, compareVars, captureVars, diffVars, scrollVars, sessionVars,
             apiVars, url>>

\* catch (e) { console.warn(...) }: the failure of a best-effort step is dropped.
Swallow(step) == swallowed' = swallowed \cup {step}

\* An error that leaves the try block of capturePage.
StabRaise(e) ==
  /\ stabPc' = "raised"
  /\ stabError' = e

\* Wait strategy: waitForLoadState('networkidle') in a try whose catch only warns,
\* or waitForSelector whose catch throws "Required element ... not found".
WaitStrategy ==
  /\ stabPc = "wait"
  /\ \/ /\ stabPc' = "cookies"
        /\ selectorIndex' = 1
        /\ UNCHANGED <<swallowed, stabError>>
     \/ /\ options.waitFor = "networkidle"
        /\ Swallow("networkidle")
        /\ stabPc' = "cookies"
        /\ selectorIndex' = 1
        /\ UNCHANGED stabError
     \/ /\ options.waitFor = "css"
        /\ StabRaise({"Required element"})
        /\ UNCHANGED <<selectorIndex, swallowed>>
  /\ UNCHANGED <<notStab, probed, clicked>>

\* A click of this call succeeded but the pause after it failed: the loop went on
\* with a page that no longer answers.
PageGone == clicked # <<>> /\ clicked[Len(clicked)].outcome = "clicked"

FailedClicks == Cardinality({i \in 1 .. Len(clicked) : clicked[i].outcome = "failed"})

\* What one pass of the for loop can meet.
ProbeOutcomes ==
  IF PageGone THEN {"throws"}
  ELSE {"throws", "no_match", "clicked", "pause_fails"}
         \cup (IF FailedClicks < MaxFailedClicks THEN {"click_fails"} ELSE {})

\* The loop goes on with the next selector, or ends after the last one.
NextSelector ==
  IF selectorIndex < NumSelectors
  THEN selectorIndex' = selectorIndex + 1 /\ UNCHANGED stabPc
  ELSE selectorIndex' = 0 /\ stabPc' = "mask"

\* One pass of the for loop of dismissCookieBanners: page.$(selector), isVisible,
\* click, the pause and break; whatever throws inside the pass is caught and the
\* loop goes on with the next selector.
ProbeSelector ==
  /\ stabPc = "cookies"
  /\ probed' = Append(probed, selectorIndex)
  /\ \E outcome \in ProbeOutcomes :
       CASE outcome = "no_match" ->
              NextSelector /\ UNCHANGED <<clicked, swallowed>>
         [] outcome = "throws" ->
              NextSelector /\ Swallow("cookies") /\ UNCHANGED clicked
         [] outcome = "click_fails" ->
              /\ clicked' = Append(clicked, [selector |-> selectorIndex, outcome |-> "failed"])
              /\ Swallow("cookies")
              /\ NextSelector
         [] outcome = "pause_fails" ->
              /\ clicked' = Append(clicked, [selector |-> selectorIndex, outcome |-> "clicked"])
              /\ Swallow("cookies")
              /\ NextSelector
         [] OTHER ->
              /\ clicked' = Append(clicked, [selector |-> selectorIndex, outcome |-> "clicked"])
              /\ selectorIndex' = 0
              /\ stabPc' = "mask"
              /\ UNCHANGED swallowed
  /\ UNCHANGED <<notStab, stabError>>

\* Mutant of InjectMasks: addStyleTag outside a try block.
InjectMasksUnguarded ==
  /\ stabPc = "mask"
  /\ \E maskCount \in {0, 1} :
       \/ stabPc' = "delay" /\ UNCHANGED <<swallowed, stabError>>
       \/ /\ maskCount > 0
          /\ \E e \in RawErrors("mask") : StabRaise(e)
          /\ UNCHANGED swallowed
  /\ UNCHANGED <<notStab, selectorIndex, probed, clicked>>

\* if (maskSelectors.length > 0) { try { addStyleTag } catch (e) { console.warn } }
InjectMasks ==
  /\ stabPc = "mask"
  /\ \E maskCount \in {0, 1} :
       \/ stabPc' = "delay" /\ UNCHANGED swallowed
       \/ /\ maskCount > 0
          /\ Swallow("mask")
          /\ stabPc' = "delay"
  /\ UNCHANGED <<notStab, selectorIndex, probed, clicked, stabError>>

\* await page.waitForTimeout(stabilizationDelay), outside any inner try.
StabDelay ==
  /\ stabPc = "delay"
  /\ \/ /\ stabPc' = (IF options.fullPage THEN "scroll" ELSE "screenshot")
        /\ UNCHANGED stabError
     \/ \E e \in RawErrors("delay") : StabRaise(e)
  /\ UNCHANGED <<notStab, selectorIndex, probed, clicked, swallowed>>

\* await this.scrollToLoadContent(page): its body is one try whose catch only warns.
StabScroll ==
  /\ stabPc = "scroll"
  /\ stabPc' = "measure"
  /\ UNCHANGED swallowed \/ Swallow("scroll")
  /\ UNCHANGED <<notStab, selectorIndex, probed, clicked, stabError>>

\* The page-dimension measurement and the scroll back to the top (after
\* waitForDynamicContent in the evolved variant), outside any inner try.
StabMeasure ==
  /\ stabPc = "measure"
  /\ \/ stabPc' = "screenshot" /\ UNCHANGED stabError
     \/ \E e \in RawErrors("dims") : StabRaise(e)
  /\ UNCHANGED <<notStab, selectorIndex, probed, clicked, swallowed>>

NextStabilize ==
  \/ WaitStrategy \/ ProbeSelector \/ InjectMasks \/ StabDelay \/ StabScroll \/ StabMeasure

SpecStabilize == InitStabilize /\ [][NextStabilize]_vars

(***************************************************************************)
(* Properties of the capture pipeline and of comparePages (under Spec)     *)
(***************************************************************************)
Finished(p) == pc[p] \in {"returned", "threw"}
Running(p) == pc[p] \notin {"idle", "returned", "threw"}

AttemptsOf(p) == {attempts[p][i] : i \in 1 .. Len(attempts[p])}

\* The strategies applicable to a request, in the order of the chain.
Chain == IF options.fullPage
         THEN <<"standard_fullPage", "clip_based_fullPage", "fallback_viewport">>
         ELSE <<"viewport">>

\* Every applicable strategy of pipeline p has been attempted and has failed.
Exhausted(p) ==
  /\ Len(attempts[p]) = Len(Chain)
  /\ \A i \in 1 .. Len(attempts[p]) : attempts[p][i].outcome = "failed"

\* C1: every CaptureResult that capturePage returns names, in metadata.captureMethod,
\* one of the four strategies, and that strategy is the one whose screenshot call
\* produced the returned buffer and whose attempt succeeded; a viewport buffer
\* returned for a fullPage request carries fullPage = true and fallback_viewport.
C1_CaptureMethodIsProducer ==
  \A p \in Pipelines :
    pc[p] = "returned" =>
      LET r == result[p][1]
      IN /\ r.metadata.captureMethod \in Methods
         /\ r.metadata.captureMethod = r.buffer
         /\ [strategy |-> r.metadata.captureMethod, outcome |-> "ok"] \in AttemptsOf(p)
         /\ \A a \in AttemptsOf(p) :
              a.outcome = "failed" => a.strategy # r.metadata.captureMethod
         /\ (options.fullPage /\ r.buffer \notin {"standard_fullPage", "clip_based_fullPage"})
              => (r.metadata.fullPage /\ r.metadata.captureMethod = "fallback_viewport")

\* A full-page request that was answered with a viewport capture.
C1_Witness ==
  \E p \in Pipelines :
    /\ pc[p] = "returned"
    /\ options.fullPage
    /\ result[p][1].buffer = "fallback_viewport"
    /\ Len(attempts[p]) = 3

\* C2: the strategies are attempted in the order of the chain, each at most once,
\* a later one only after every earlier one has failed; without fullPage only the
\* viewport strategy is attempted, once.
C2_ChainOrder ==
  \A p \in Pipelines :
    /\ Len(attempts[p]) <= Len(Chain)
    /\ \A i \in 1 .. Len(attempts[p]) :
         /\ attempts[p][i].strategy = Chain[i]
         /\ i < Len(attempts[p]) => attempts[p][i].outcome = "failed"

\* The whole chain was walked: three attempts, the last one still succeeded.
C2_Witness ==
  \E p \in Pipelines :
    /\ Len(attempts[p]) = 3
    /\ attempts[p][3].outcome = "ok"

\* C3: whenever comparePages has returned or raised, neither page of the
\* comparison is open (or still to be opened).
C3_PagesClosedWhenCompareSettles ==
  cmp \in {"returned", "raised"} => \A p \in Pipelines : page[p] = "closed"

\* C4: when a capturePage call has returned or thrown, the page it opened is closed.
C4_PageClosedOnExit ==
  \A p \in Pipelines : Finished(p) => page[p] = "closed"

\* A capture that failed after its screenshot had been taken, page closed.
C4_Witness ==
  \E p \in Pipelines :
    /\ pc[p] = "threw"
    /\ screenshot[p] # "none"
    /\ page[p] = "closed"

\* C5: comparePages returns a result only if both captures and the diff succeeded,
\* and then every part of the result is populated; if a capture or the diff fails,
\* comparePages raises and there is no result.
C5_AtomicResult ==
  /\ cmp = "returned" =>
       /\ \A p \in Pipelines : pc[p] = "returned"
       /\ lastCall # <<>> /\ lastCall[1].outcome.error = NoError
       /\ Len(finalResult) = 1
       /\ LET r == finalResult[1]
          IN /\ r.id # ""
             /\ r.urls = [A |-> UrlText("A"), B |-> UrlText("B")]
             /\ r.metadata = [A |-> result["A"][1].metadata, B |-> result["B"][1].metadata]
             /\ \A p \in Pipelines : r.metadata[p].captureMethod \in Methods
             /\ \A k \in {"A", "B", "diff"} :
                  /\ r.images[k].decodes
                  /\ r.images[k].width = r.metrics.width
                  /\ r.images[k].height = r.metrics.height
             /\ r.metrics = lastCall[1].outcome.metrics[1]
  /\ cmp # "returned" => finalResult = <<>>
  /\ (\E p \in Pipelines : pc[p] = "threw") => cmp = "raised"
  /\ (lastCall # <<>> /\ lastCall[1].outcome.error # NoError) => cmp = "raised"

\* Both captures succeeded but the diff failed: comparePages raised, nothing returned.
C5_Witness ==
  /\ cmp = "raised"
  /\ \A p \in Pipelines : pc[p] = "returned"
  /\ finalResult = <<>>

\* C6: computeVisualDiff starts only after both captures have returned, and no
\* capture ever has to wait for the other one: whatever the position of the other
\* pipeline, a running pipeline can take its next step.
C6_DiffAfterBothCaptures ==
  /\ diffStarted => \A p \in Pipelines : pc[p] = "returned"
  /\ \A p \in Pipelines : Running(p) => ENABLED PipelineStep(p)

\* The diff ran although the capture that was started second finished first.
C6_Witness ==
  /\ diffStarted
  /\ settled = <<"B", "A">>

\* C7: when the standard, clip-based and fallback attempts have all failed, the
\* error leaving the screenshot step is the one the standard attempt raised.
C7_FirstErrorPropagates ==
  \A p \in Pipelines :
    (pc[p] = "catch" /\ options.fullPage /\ Exhausted(p)) => error[p] = fullPageError[p]

\* C8: a capturePage call whose applicable strategies have all failed throws an
\* error tagged 'Capture Error'.
C8_ExhaustionIsCaptureError ==
  \A p \in Pipelines :
    (pc[p] = "threw" /\ Exhausted(p)) => "Capture Error" \in thrown[p]

(***************************************************************************)
(* Properties of scrollToLoadContent (under SpecScroll / FairSpecScroll)   *)
(***************************************************************************)
\* The loop has run at most maxScrollAttempts iterations, and an iteration that
\* measured a height above the ceiling was the last one.
ScrollBounded ==
  /\ scrollAttempts <= maxScrollAttempts
  /\ (scrollPc = "loop" /\ scrollAttempts > 0) => newHeight <= HeightCeiling

\* C9: scrollToLoadContent terminates whatever the page does: its loop runs at most
\* maxScrollAttempts iterations and stops once the measured height exceeds the
\* ceiling, and the call returns to the capture pipeline.
C9_ScrollTerminates == []ScrollBounded /\ <>(scrollPc = "returned")

\* The page grew on every step until the loop stopped at the ceiling.
C9_Witness ==
  /\ scrollPc = "returned"
  /\ scrollExit = "ceiling"
  /\ scrollAttempts > 1
  /\ grownSteps = scrollAttempts

(***************************************************************************)
(* Properties of computeVisualDiff (under SpecDiff)                        *)
(***************************************************************************)
\* The threshold a call asked for (the documented default when it gave none).
Requested(opts) == IF "threshold" \in DOMAIN opts THEN opts.threshold ELSE 10

\* changedPixels of the diff of the current pair of buffers at threshold t.
ChangedAt(t, includeAA) ==
  ComputeVisualDiff(bufferA, bufferB, [threshold |-> t, includeAA |-> includeAA],
                    aaPixels).metrics[1].changedPixels

\* C10: for one pair of images and one includeAA setting, a call with a higher
\* threshold never reports more changed pixels than a call with a lower one.
C10_ThresholdMonotone ==
  (lastCall # <<>> /\ lastCall[1].outcome.error = NoError) =>
    LET opts == lastCall[1].options
        changed == lastCall[1].outcome.metrics[1].changedPixels
    IN \A t \in Thresholds \cup {10} :
         /\ t > Requested(opts) => ChangedAt(t, opts.includeAA) <= changed
         /\ t < Requested(opts) => ChangedAt(t, opts.includeAA) >= changed

\* A call at the highest threshold that reports fewer changed pixels than the
\* same pair gives at threshold 0.
C10_Witness ==
  /\ lastCall # <<>>
  /\ lastCall[1].outcome.error = NoError
  /\ "threshold" \in DOMAIN lastCall[1].options
  /\ lastCall[1].options.threshold = 100
  /\ ~lastCall[1].options.includeAA
  /\ lastCall[1].outcome.metrics[1].changedPixels
       < ChangedAt(0, lastCall[1].options.includeAA)

\* The tags of the error kinds of capturePage.
Kinds == {"Network Error", "DNS Error", "Security Error", "Timeout Error",
          "Content Error", "Stability Error", "Capture Error"}

\* C16: when the navigation to urlA fails because its hostname cannot be resolved
\* and the capture of urlB does not fail, comparePages raises an error tagged
\* 'DNS Error', of no other kind, and returns no result.
C16_UnresolvedHostIsDnsError ==
  (/\ pc["A"] = "threw"
   /\ "Could not resolve hostname" \in error["A"]
   /\ pc["B"] # "threw") =>
    /\ cmp = "raised"
    /\ cmpError \cap Kinds = {"DNS Error"}
    /\ UrlText("A") \subseteq cmpError
    /\ finalResult = <<>>

\* urlA did not resolve while urlB was captured.
C16_Witness ==
  /\ pc["A"] = "threw"
  /\ "Could not resolve hostname" \in error["A"]
  /\ pc["B"] = "returned"
  /\ cmp = "raised"

(***************************************************************************)
(* Properties of computeVisualDiff (continued)                             *)
(***************************************************************************)
\* The last computeVisualDiff call returned (did not throw), and what it returned.
Succeeded == lastCall # <<>> /\ lastCall[1].outcome.error = NoError
LastMetrics == lastCall[1].outcome.metrics[1]
LastImages == lastCall[1].outcome.images[1]
Abs(n) == IF n < 0 THEN -n ELSE n

\* C11: after a successful computeVisualDiff the diff raster, both cropped images and
\* the metrics all have the dimensions min(widthA, widthB) x min(heightA, heightB),
\* and pixel (x, y) of each cropped image is pixel (x, y) of its input.
C11_DiffDimensions ==
  Succeeded =>
    LET w == Min(bufferA.width, bufferB.width)
        h == Min(bufferA.height, bufferB.height)
    IN /\ LastMetrics.width = w
       /\ LastMetrics.height = h
       /\ \A k \in {"A", "B", "diff"} :
            /\ LastImages[k].width = w
            /\ LastImages[k].height = h
            /\ DOMAIN LastImages[k].data = 1 .. w * h
       /\ \A x \in 0 .. w - 1, y \in 0 .. h - 1 :
            /\ Pixel(LastImages.A, y * w + x) = Pixel(bufferA, y * bufferA.width + x)
            /\ Pixel(LastImages.B, y * w + x) = Pixel(bufferB, y * bufferB.width + x)

\* A 2 x 2 image cropped to the left column of a 1 x 2 partner.
C11_Witness ==
  /\ Succeeded
  /\ bufferA = Gradient(2, 2)
  /\ bufferB.width = 1 /\ bufferB.height = 2
  /\ Pixel(LastImages.A, 1) = 50

\* C12 as stated: the reported mismatchPercent is exactly 100 * changedPixels / totalPixels.
C12_ExactPercent ==
  Succeeded =>
    /\ LastMetrics.totalPixels = LastMetrics.width * LastMetrics.height
    /\ LastMetrics.mismatchPercent * LastMetrics.totalPixels = 10000 * LastMetrics.changedPixels

\* C12 (amended): totalPixels = width * height, and the reported mismatchPercent is
\* 100 * changedPixels / totalPixels rounded to two decimals: it is within 0.005 of
\* that quotient.
C12_RoundedPercent ==
  Succeeded =>
    /\ LastMetrics.totalPixels = LastMetrics.width * LastMetrics.height
    /\ 2 * Abs(LastMetrics.mismatchPercent * LastMetrics.totalPixels
                 - 10000 * LastMetrics.changedPixels) <= LastMetrics.totalPixels

\* Two of three pixels changed: 66.67 is reported for 66.666...
C12_Witness ==
  /\ Succeeded
  /\ LastMetrics.totalPixels = 3
  /\ LastMetrics.changedPixels = 2
  /\ LastMetrics.mismatchPercent = 6667

\* C13 as stated: ssimScore is 1 - mismatchPercent / 100 of the reported mismatchPercent.
C13_SsimFromReportedPercent ==
  Succeeded => LastMetrics.ssimScore = 10000 - LastMetrics.mismatchPercent

\* C13 (amended): ssimScore is 1 - changedPixels / totalPixels rounded to four
\* decimals; it differs from 1 - (reported mismatchPercent) / 100 by at most 0.0001.
C13_SsimRounded ==
  Succeeded =>
    /\ 2 * Abs(LastMetrics.ssimScore * LastMetrics.totalPixels
                 - 10000 * (LastMetrics.totalPixels - LastMetrics.changedPixels))
         <= LastMetrics.totalPixels
    /\ Abs(LastMetrics.ssimScore - (10000 - LastMetrics.mismatchPercent)) <= 1

\* One pixel of 32 changed: 3.13 percent and a score of 0.9688 are reported.
C13_Witness ==
  /\ Succeeded
  /\ LastMetrics.totalPixels = 32
  /\ LastMetrics.changedPixels = 1
  /\ LastMetrics.mismatchPercent = 313
  /\ LastMetrics.ssimScore = 9688

\* C14: computeVisualDiff on two identical images succeeds and reports no changed
\* pixel and a mismatch of 0 percent, at every threshold and includeAA setting.
C14_IdenticalImagesNoChange ==
  (/\ lastCall # <<>>
   /\ bufferA.decodes
   /\ bufferA = bufferB
   /\ bufferA.width <= MaxImageDimension
   /\ bufferA.height <= MaxImageDimension) =>
    /\ Succeeded
    /\ LastMetrics.changedPixels = 0
    /\ LastMetrics.mismatchPercent = 0

\* An image with four different pixels compared with itself at threshold 0,
\* anti-aliased pixels excluded.
C14_Witness ==
  /\ Succeeded
  /\ bufferA = Gradient(2, 2)
  /\ bufferB = bufferA
  /\ Requested(lastCall[1].options) = 0
  /\ ~lastCall[1].options.includeAA
  /\ aaPixels # {}

\* The pixels of two equal-sized images that differ by more than the threshold distance.
DifferingPixels(t) ==
  {i \in CropPixels(bufferA, bufferB) :
     ColorDelta(Pixel(bufferA, i), Pixel(bufferB, i)) > MaxDelta(t)}

\* C15: with anti-aliased pixels counted, changedPixels of two equal-sized images is
\* the number of pixels that differ by more than the threshold distance; the white
\* page against the white page with a black square (one pixel of the model for a
\* 100 x 100 block) gives 2.08 percent at threshold 0.1, and 10000 changed pixels
\* of 800 x 600 are reported as 2.08 percent.
C15_ChangedPixelsCounted ==
  /\ (/\ Succeeded
      /\ bufferA.width = bufferB.width
      /\ bufferA.height = bufferB.height
      /\ lastCall[1].options.includeAA) =>
       LastMetrics.changedPixels = Cardinality(DifferingPixels(Requested(lastCall[1].options)))
  /\ (/\ Succeeded
      /\ bufferA = WhitePage
      /\ bufferB = WhitePageWithSquare
      /\ Requested(lastCall[1].options) = 10) =>
       (LastMetrics.changedPixels = 1 /\ LastMetrics.mismatchPercent = 208)
  /\ MathRound(10000 * 10000, 800 * 600) = 208

\* The white page against the page with the square, at the default threshold.
C15_Witness ==
  /\ Succeeded
  /\ bufferA = WhitePage
  /\ bufferB = WhitePageWithSquare
  /\ "threshold" \notin DOMAIN lastCall[1].options
  /\ lastCall[1].options.includeAA
  /\ LastMetrics.mismatchPercent = 208

\* Both inputs of the last call decoded; an input is oversized if it is wider or
\* taller than the limit.
Decoded == lastCall # <<>> /\ bufferA.decodes /\ bufferB.decodes
Oversized(img) == img.width > MaxImageDimension \/ img.height > MaxImageDimension
Failed(kind) ==
  /\ kind \in lastCall[1].outcome.error
  /\ lastCall[1].outcome.metrics = <<>>
  /\ lastCall[1].outcome.images = <<>>

\* C17 as stated: a call with an oversized decoded input fails with
\* 'Image processing failed' and produces neither raster nor metrics.
C17_OversizedInputFails ==
  (Decoded /\ (Oversized(bufferA) \/ Oversized(bufferB))) => Failed("Image processing failed")

\* C17 (amended): a call whose normalized rectangle (the smaller width by the smaller
\* height of the two inputs) is wider or taller than 10000 fails with 'Image
\* processing failed: Image is too large to process' and produces nothing; an
\* oversized input whose partner is within the limit is cropped and compared.
C17_OversizedResultFails ==
  /\ (Decoded /\ (\/ Min(bufferA.width, bufferB.width) > MaxImageDimension
                   \/ Min(bufferA.height, bufferB.height) > MaxImageDimension)) =>
       (/\ Failed("Image processing failed")
        /\ "Image is too large to process" \in lastCall[1].outcome.error)
  /\ (Decoded /\ Min(bufferA.width, bufferB.width) <= MaxImageDimension
              /\ Min(bufferA.height, bufferB.height) <= MaxImageDimension) => Succeeded

\* Both captures were too tall and the diff was refused.
C17_Witness ==
  /\ Decoded
  /\ bufferA = TallScreenshot
  /\ bufferB = TallScreenshot
  /\ Failed("Image processing failed")

\* C18: a call with an input that cannot be decoded fails with 'Image processing failed'.
C18_UndecodableIsImageProcessingError ==
  (lastCall # <<>> /\ (~bufferA.decodes \/ ~bufferB.decodes)) =>
    Failed("Image processing failed")

(***************************************************************************)
(* Properties of the session (under SpecSession)                           *)
(***************************************************************************)
\* C19: a capturePage call made after a cleanup() has completed fails with a
\* lifecycle error, launches no browser and opens no page.
C19_DisposedSessionRefuses ==
  (lastOp.name = "capturePage" /\ lastOp.wasDisposed) =>
    /\ lastOp.outcome = "lifecycle error"
    /\ lastOp.launched = 0
    /\ lastOp.pages = 0

\* C20: no context and no browser receives close() twice; when a cleanup() call has
\* returned, this.context and this.browser are null; and a cleanup() call that found
\* both null (a repeated call, or a call on a service never initialized) has made no
\* close() call, has returned normally and has left the running browsers and open
\* contexts as they were.
C20_CleanupIdempotent ==
  /\ \A id \in BrowserIds : browserCloses[id] <= 1 /\ contextCloses[id] <= 1
  /\ (sessionPc = "idle" /\ lastOp.name = "cleanup") =>
       /\ lastOp.outcome = "returned"
       /\ browser = 0 /\ context = 0
       /\ liveBrowsers = {} /\ liveContexts = {}
       /\ lastOp.closed <= 2
       /\ lastOp.wasNull =>
            /\ lastOp.closed = 0
            /\ lastOp.liveBefore = <<liveBrowsers, liveContexts>>

\* cleanup() called again on a session that had been initialized and disposed.
C20_Witness ==
  /\ sessionPc = "idle"
  /\ lastOp.name = "cleanup"
  /\ lastOp.wasNull
  /\ lastOp.wasDisposed
  /\ browserCloses[1] = 1
  /\ contextCloses[1] = 1

\* C21: a setViewport call with a width or height that is <= 0 or > 10000 is rejected
\* with a validation error and changes neither the stored viewport nor the context's;
\* a call with both values in 1..10000 returns and sets both to the requested values.
C21_SetViewportContract ==
  lastViewportCall # <<>> =>
    LET call == lastViewportCall[1]
        valid == call.width \in 1 .. 10000 /\ call.height \in 1 .. 10000
    IN IF valid
       THEN /\ call.outcome = {}
            /\ call.after[1] = call.width
            /\ call.after[2] = call.height
            /\ call.after[3] = <<call.width, call.height>>
       ELSE /\ \E m \in call.outcome : m \in {"Viewport dimensions must be positive numbers",
                                              "Viewport dimensions too large"}
            /\ call.after = call.before

\* The error raised inside capturePage p is a navigation timeout or the timeout of
\* the wait for a required css: selector.
TimedOut(p) == "Navigation timeout" \in error[p] \/ "Required element" \in error[p]

\* C22: a timeout of the navigation or of the wait for a required css: selector is
\* terminal: the step is not tried again, the capture raises, and comparePages raises
\* without a result.
C22_TimeoutIsTerminal ==
  /\ [](\A p \in Pipelines :
          TimedOut(p) =>
            /\ pc[p] \in {"catch", "threw"}
            /\ pc[p] = "threw" => /\ thrown[p] # NoError
                                  /\ result[p] = <<>>
                                  /\ cmp = "raised"
                                  /\ finalResult = <<>>)
  /\ [][\A p \in Pipelines :
          TimedOut(p) => /\ error'[p] = error[p]
                         /\ pc'[p] \in {"catch", "threw"}
                         /\ pc[p] = "threw" => pc'[p] = "threw" /\ cmp' = "raised"]_vars

C22_Witness ==
  /\ pc["A"] = "threw" /\ "Navigation timeout" \in thrown["A"]
  /\ pc["B"] = "threw" /\ "Required element" \in thrown["B"]
  /\ cmp = "raised"
  /\ options.waitFor = "css"

\* The messages of the low-level errors the browser automation raises.
RawMessages == {"raw:" \o step : step \in {"setup", "goto", "delay", "dims", "standard",
                                           "measure", "clip", "viewport", "fallback",
                                           "final", "selector"}}

\* C26: every error that leaves capturePage carries a kind tag or the generic
\* 'Screenshot capture failed for <url>' and contains the message of the low-level
\* error it was raised for.
C26_ErrorsKeepOriginalMessage ==
  \A p \in Pipelines :
    pc[p] = "threw" =>
      /\ thrown[p] \cap (Kinds \cup {"Screenshot capture failed"}) # {}
      /\ thrown[p] \cap RawMessages # {}

\* The diffThreshold of the request, 0.1 when the request gives none, and its
\* value clamped into [0, 1].
RequestedThreshold ==
  IF "diffThreshold" \in DOMAIN request.options THEN request.options.diffThreshold ELSE 10
ClampedThreshold == Min(Max(RequestedThreshold, 0), 100)

\* C23: the threshold the diff engine is called with, and the one its metrics report,
\* is the request's diffThreshold clamped into [0, 1]; 0.1 is used only when the
\* request gives none, and a requested 0 is used as 0.
C23_ThresholdIsRequestedClamped ==
  (apiPc = "responded" /\ lastCall # <<>>) =>
    /\ lastCall[1].options.threshold = ClampedThreshold
    /\ lastCall[1].outcome.error = NoError =>
         lastCall[1].outcome.metrics[1].threshold = ClampedThreshold

\* C24: whichever endpoint serves the request, the options comparePages is called
\* with have a timeout of at most 120000 ms and a stabilizationDelay of at most 5000 ms.
C24_TimeoutAndDelayCapped ==
  apiPc = "comparing" =>
    /\ "timeout" \in DOMAIN options => options.timeout <= 120000
    /\ "stabilizationDelay" \in DOMAIN options => options.stabilizationDelay <= 5000

\* The code the error response of a failure of each kind is to carry.
KindCode(kind) ==
  CASE kind = "Network Error" -> "NETWORK_ERROR"
    [] kind = "DNS Error" -> "DNS_ERROR"
    [] kind = "Security Error" -> "SSL_ERROR"
    [] kind = "Timeout Error" -> "TIMEOUT_ERROR"
    [] kind = "Content Error" -> "CONTENT_ERROR"
    [] kind = "Stability Error" -> "STABILITY_ERROR"
    [] kind = "Capture Error" -> "CAPTURE_ERROR"
    [] kind = "Image processing failed" -> "IMAGE_PROCESSING_ERROR"
    [] kind = "Image comparison failed" -> "COMPARISON_ERROR"

ResponseKinds == Kinds \cup {"Image processing failed", "Image comparison failed"}

\* C27: a compare-ui request whose comparison failed with an error of kind K gets
\* exactly one response, an error response with the code of K and no result.
C27_ErrorResponseCarriesKindCode ==
  (apiPc = "responded" /\ request.endpoint = "compare-ui") =>
    /\ Len(response) = 1
    /\ \A kind \in ResponseKinds :
         kind \in response[1].error =>
           /\ response[1].code = KindCode(kind)
           /\ response[1].result = <<>>

(***************************************************************************)
(* Properties of the scroll loop (under SpecScroll and FairSpecScroll)     *)
(***************************************************************************)
\* The loop of scrollToLoadContent has been left by a break or by its condition.
LoopLeft == scrollExit \in {"condition", "noChange", "ceiling", "bottom"}

\* The three terminating conditions: the no-change counter at its threshold, the
\* step count at its maximum, the height above the ceiling.
CounterAtThreshold == variant = "evolved" /\ noChangeCount >= maxNoChangeCount
StepsExhausted == scrollAttempts >= maxScrollAttempts
AboveCeiling == lastHeight > HeightCeiling

\* C29 as stated: the loop ends exactly when the no-change counter has reached its
\* threshold, the maximum step count has been reached, or the measured height
\* exceeds the ceiling, and has no other exit.
C29_ThreeExitsOnly ==
  /\ LoopLeft => (CounterAtThreshold \/ StepsExhausted \/ AboveCeiling)
  /\ (scrollPc = "loop" /\ scrollAttempts > 0) => ~CounterAtThreshold /\ ~AboveCeiling

\* C29, amended: the loop is left by its condition when the scroll position has
\* reached the last known height or the step count its maximum, by a break when the
\* no-change counter reaches its threshold (evolved variant only), when the height
\* recorded by an iteration exceeds the ceiling, or when the evolved variant's
\* long-distance probe finds no more content; an iteration that leaves the loop
\* running has found neither the counter at its threshold nor the height above
\* the ceiling.
C29_LoopExits ==
  /\ scrollExit = "condition" => (currentPosition >= lastHeight \/ StepsExhausted)
  /\ scrollExit = "noChange" => (CounterAtThreshold /\ noChangeCount = maxNoChangeCount)
  /\ scrollExit = "ceiling" => (AboveCeiling /\ scrollAttempts > 0)
  /\ scrollExit = "bottom" =>
       (variant = "evolved" /\ totalScrollDistance > 50000 /\ scrollAttempts > 20)
  /\ (scrollPc = "loop" /\ scrollAttempts > 0) => ~CounterAtThreshold /\ ~AboveCeiling
  /\ (scrollPc \in {"settle", "returned"} /\ scrollExit # "error") => LoopLeft

\* The loop was left at the bottom of a page that never grew, after fewer than the
\* maximum number of steps.
C29_Witness ==
  /\ scrollPc = "returned"
  /\ scrollExit = "condition"
  /\ currentPosition >= lastHeight
  /\ lastHeight > 0
  /\ ~StepsExhausted /\ ~AboveCeiling /\ ~CounterAtThreshold

\* A step of the loop that has the no-change counter; the dimensions it measured
\* are pageHeight' and pageWidth'.
CountedStep ==
  variant = "evolved" /\ scrollPc = "loop" /\ totalScrollDistance' # totalScrollDistance
GrowthMeasured == pageHeight' > lastHeight \/ pageWidth' > lastWidth

\* The counter after a step: 0 after growth, one more after none, never above its
\* threshold.
CounterFollowsGrowth ==
  /\ [](noChangeCount <= maxNoChangeCount)
  /\ [][CountedStep =>
          IF GrowthMeasured
          THEN noChangeCount' = 0
          ELSE /\ noChangeCount' = noChangeCount + 1
               /\ lastHeight' = lastHeight
               /\ lastWidth' = lastWidth]_vars

\* C30 as stated: after every step the counter is the number of the most recent
\* consecutive steps without growth (0 after growth, incremented otherwise, never
\* above the threshold), and lastHeight and lastWidth are raised to the new
\* measurements on growth and never lowered.
C30_CounterAndDimensionsNeverLowered ==
  /\ CounterFollowsGrowth
  /\ [][CountedStep => lastHeight' >= lastHeight /\ lastWidth' >= lastWidth]_vars

\* C30, amended: after every step the counter is the number of the most recent
\* consecutive steps without growth (0 after growth, incremented otherwise, never
\* above the threshold); on growth of either dimension lastHeight and lastWidth
\* both become the new measurements, which lowers the one that shrank.
C30_CounterAndDimensionsFollowMeasurement ==
  /\ CounterFollowsGrowth
  /\ [][(CountedStep /\ GrowthMeasured) =>
          lastHeight' = pageHeight' /\ lastWidth' = pageWidth']_vars

\* A page that became wider and shorter: lastHeight went from 1600 down to 800
\* without any growth in height, and the next step counted no change.
C30_Witness ==
  /\ variant = "evolved"
  /\ scrollPc = "returned"
  /\ lastHeight = 800 /\ lastWidth = 1920
  /\ grownSteps = 0
  /\ noChangeCount = 1

(***************************************************************************)
(* Properties of the two concurrent capturePage calls (under SpecLazy)     *)
(***************************************************************************)
\* The browsers launched by the capturePage calls of the current comparePages call.
LaunchedLazily == {launchedBy[p] : p \in Pipelines} \ {0}

\* C25: the two pipelines of a comparison open distinct pages, and neither assigns
\* session state (this.browser, this.context, the stored viewport) that the other
\* reads: no pipeline gets its page from a context the other pipeline created.
C25_PipelinesShareNoWrittenState ==
  /\ (pageOf["A"].id # 0 /\ pageOf["B"].id # 0) => pageOf["A"].id # pageOf["B"].id
  /\ \A p \in Pipelines :
       pageOf[p].id # 0 => pageOf[p].context # launchedBy[Other(p)]

\* C28: when the two capturePage calls find the session without a browser, exactly
\* one browser and one context are launched, both calls get their page from that
\* context without error, and after a later cleanup() no launched browser is alive.
C28_LazyInitLaunchesOnce ==
  LaunchedLazily # {} =>
    /\ Cardinality(LaunchedLazily) = 1
    /\ \A p \in Pipelines :
         /\ thrown[p] # {"TypeError"}
         /\ pageOf[p].id # 0 => pageOf[p].context \in LaunchedLazily
    /\ (sessionPc = "idle" /\ lastOp.name = "cleanup" /\ browser = 0) => liveBrowsers = {}

(***************************************************************************)
(* Properties of the scroll loop on a static page (under SpecStatic)       *)
(***************************************************************************)
ScrollLoopDone == scrollPc \in {"settle", "returned"}

\* The page is within reach of the step cap.
WithinStepCap == pageHeight <= maxScrollAttempts * scrollStep

ProbeGuard == totalScrollDistance > 50000 /\ scrollAttempts > 20

\* C40 as stated: some page behaviour within the step cap makes the loader scroll
\* more than 50000 px in total in more than 20 steps, so that the probe is executed.
\* The total grows with every step by the step size, so if any behaviour does, the
\* one that takes every step the cap allows at the full step size does.
C40_ProbeReached ==
  (variant = "evolved" /\ scrollAttempts = maxScrollAttempts /\ scrollStep = 800) =>
    ProbeGuard

\* C40, amended: the probe is never executed; the loop adds scrollStep <= 800 to the
\* total distance at most maxScrollAttempts = 50 times, so the total never exceeds
\* 40000.
C40_ProbeNeverReached ==
  /\ ~ProbeGuard
  /\ scrollExit # "bottom"
  /\ scrollStep <= 800
  /\ totalScrollDistance <= 40000

\* The evolved loop ran all of its 50 steps at full step size.
C40_Witness ==
  /\ variant = "evolved"
  /\ scrollPc = "returned"
  /\ scrollAttempts = 50
  /\ totalScrollDistance = 40000

\* C38 as stated: the reported mismatchPercent is 0 only when changedPixels is 0, and
\* the reported similarity score is 1 only when changedPixels is 0.
C38_ZeroPercentMeansNoChange ==
  Succeeded =>
    /\ LastMetrics.mismatchPercent = 0 => LastMetrics.changedPixels = 0
    /\ LastMetrics.ssimScore = 10000 => LastMetrics.changedPixels = 0

\* C38, amended: the reported mismatchPercent is 0 exactly when fewer than one pixel
\* in 20000 changed, and the reported similarity score is 1 exactly when at most one
\* pixel in 20000 changed.
C38_ZeroPercentMeansBelowRounding ==
  Succeeded =>
    /\ LastMetrics.mismatchPercent = 0
         <=> 20000 * LastMetrics.changedPixels < LastMetrics.totalPixels
    /\ LastMetrics.ssimScore = 10000
         <=> 20000 * LastMetrics.changedPixels <= LastMetrics.totalPixels

\* One changed pixel of 20100: 0 % and a similarity of 1 are reported.
C38_Witness ==
  /\ Succeeded
  /\ LastMetrics.totalPixels = 20100
  /\ LastMetrics.changedPixels = 1
  /\ LastMetrics.mismatchPercent = 0
  /\ LastMetrics.ssimScore = 10000

(***************************************************************************)
(* Properties of the page stabilization (under SpecStabilize)              *)
(***************************************************************************)
\* C34: dismissCookieBanners probes the selectors in list order and makes at most one
\* click attempt: once a visible match has been clicked, no further selector is
\* probed or clicked.
C34_SingleClickAttempt ==
  /\ \A i \in 1 .. Len(probed) : probed[i] = i
  /\ Len(clicked) <= 1
  /\ clicked # <<>> => Len(probed) = clicked[1].selector

\* The step after a best-effort step that completed.
Following(at) ==
  CASE at = "wait" -> {"cookies"}
    [] at = "cookies" -> {"cookies", "mask"}
    [] at = "mask" -> {"delay"}
    [] at = "scroll" -> {"measure"}
    [] OTHER -> {}

\* C35: a failure inside a best-effort stabilization step (network-idle wait, cookie
\* banner dismissal, mask style tag, lazy-load scroll) raises nothing and is followed
\* by the step that follows its success; the stabilization raises only from the
\* css: wait, the stabilization delay and the dimension measurement.
C35_BestEffortFailuresSwallowed ==
  [][/\ swallowed' # swallowed =>
          /\ stabPc' \in Following(stabPc)
          /\ stabError' = NoError
     /\ (stabPc' = "raised" /\ stabPc # "raised") =>
          /\ stabPc \in {"wait", "delay", "measure"}
          /\ stabPc = "wait" => options.waitFor = "css"
          /\ swallowed' = swallowed]_vars

\* Every best-effort step failed and the first screenshot call is reached.
C35_Witness ==
  /\ stabPc = "screenshot"
  /\ swallowed = BestEffortSteps
  /\ stabError = NoError

(***************************************************************************)
(* Properties of the clip-based strategy (under Spec)                      *)
(***************************************************************************)
\* The measured page size is positive and not above the size taken for too large.
ValidClip(dims) ==
  /\ dims[1] > 0 /\ dims[2] > 0
  /\ dims[1] <= LargeDimension /\ dims[2] <= LargeDimension

\* C32: a clip-based full-page screenshot is requested only with a measured width and
\* height that are positive and not above the upper bound; with any other
\* measurement the request is not made.
C32_ClipOnlyWithValidDimensions ==
  \A p \in Pipelines :
    pc[p] = "clip_shot" =>
      (fullPageDimensions[p] # <<>> /\ ValidClip(fullPageDimensions[p][1]))

\* The size of the region a strategy screenshots: the clip of the viewport
\* strategies is the configured viewport, the full-page strategies take the page.
RegionOf(method) ==
  IF method \in {"viewport", "fallback_viewport"} THEN ConfiguredViewport ELSE FinalDimensions

\* C39: in every CaptureResult of the evolved variant capturedDimensions is the size
\* of the region that was screenshotted: the configured viewport when captureMethod
\* is viewport or fallback_viewport, the page size when it is standard_fullPage or
\* clip_based_fullPage.
C39_CapturedDimensionsMatchMethod ==
  \A p \in Pipelines :
    (variant = "evolved" /\ result[p] # <<>>) =>
      result[p][1].metadata.capturedDimensions
        = <<RegionOf(result[p][1].metadata.captureMethod)>>

(***************************************************************************)
(* Properties of the error classification (under Spec and SpecUrls)        *)
(***************************************************************************)
\* The browser error a failed capture began with: the one a catch replaced, or the
\* one that reached catch (error) unreplaced.
RawFailure(p) == IF cause[p] # NoError THEN cause[p] ELSE error[p] \ url[p]

\* What a failed capture is reported as: the kind tag capturePage gave it and the
\* status and code compare-ui answers with.
ReportedKind(p) == <<thrown[p] \cap Kinds, CompareUiErrorCode(thrown[p])>>

\* C33: two captures that failed at the same stage with the same browser error are
\* reported as the same kind, whatever the texts of their urls.
C33_KindIndependentOfUrl ==
  \A p, q \in Pipelines :
    (pc[p] = "threw" /\ pc[q] = "threw" /\ RawFailure(p) = RawFailure(q)) =>
      ReportedKind(p) = ReportedKind(q)

\* The one kind of a failed capture.
KindIs(p, kind) == thrown[p] \cap Kinds = {kind}

\* The kind of a browser error by the first signature that matches it, in the
\* order of the claim ("none" when no signature matches).
FirstMatch(f) ==
  IF "net::ERR_CONNECTION_REFUSED" \in f THEN "Network Error"
  ELSE IF "net::ERR_NAME_NOT_RESOLVED" \in f THEN "DNS Error"
  ELSE IF "net::ERR_SSL_PROTOCOL_ERROR" \in f THEN "Security Error"
  ELSE IF "raw:goto" \in f /\ "timeout" \in f THEN "Timeout Error"
  ELSE IF "raw:selector" \in f THEN "Content Error"
  ELSE IF "Page crashed" \in f THEN "Stability Error"
  ELSE "none"

\* C36: a failed capture is given exactly one kind, by the first signature that
\* matches its browser error: connection refused Network Error, name not resolved
\* DNS Error, SSL protocol error Security Error, navigation timeout Timeout Error,
\* a required css: selector that does not appear Content Error, a page crash
\* Stability Error.
C36_FailuresClassified ==
  \A p \in Pipelines :
    (pc[p] = "threw" /\ FirstMatch(RawFailure(p)) # "none") =>
      KindIs(p, FirstMatch(RawFailure(p)))

\* A navigation error with two signatures gets the kind of the first, a failed
\* navigation that timed out is a Timeout Error, and a crash is a Stability Error.
C36_Witness ==
  /\ pc["A"] = "threw"
  /\ cause["A"] = {"raw:goto", "net::ERR_NAME_NOT_RESOLVED", "timeout"}
  /\ KindIs("A", "DNS Error")
  /\ pc["B"] = "threw"
  /\ "Page crashed" \in error["B"]
  /\ KindIs("B", "Stability Error")

(***************************************************************************)
(* The HTTP server with requests in flight on the module-level             *)
(* screenshotService: one compare-multi request, which replaces the        *)
(* service once per viewport, and compare-ui requests, which call          *)
(* comparePages on the service the variable holds when they arrive.        *)
(* browser and context are the fields of the service the variable holds:   *)
(* both fields of a service are null when it is constructed and when its   *)
(* cleanup() has returned.  A capturePage call keeps the context it        *)
(* called newPage on; a context has the id of its browser.  The            *)
(* comparePages call of compare-multi is taken by its outcome.             *)
(***************************************************************************)
MaxViewports == 2            \* viewports in the compare-multi request

ServerViewports == {<<768, 1024>>, <<0, 844>>}

\* req.body of the compare-multi request: the list of its viewports.
ServerRequests ==
  {[endpoint |-> "compare-multi", viewports |-> list] :
     list \in UNION {[1 .. n -> ServerViewports] : n \in 1 .. MaxViewports}}

InitServer ==
  /\ variant = "service"
  /\ options = [fullPage |-> TRUE, waitFor |-> "networkidle"]
  /\ request \in ServerRequests
  /\ apiPc = "received"
  /\ response = <<>>
  /\ StabIdle
  /\ url = PlainUrls
  /\ CaptureIdle
  /\ bufferA = Corrupt
  /\ bufferB = Corrupt
  /\ DiffIdle
  /\ pageHeight = 0
  /\ ScrollIdle
  /\ SessionReady

serverFixed == <<variant, options, finalResult, diffStarted, screenshot, captureMethod,
                 attempts, fullPageError, error, result, settled, fullPageDimensions,
                 cause, diffVars, scrollVars, stabVars, url, launchedBy, sessionWriters>>
uiVars == <<cmp, cmpError, pc, page, thrown, pageOf, sessionPages>>
serviceFields == <<browser, context, launched, liveBrowsers, liveContexts, browserCloses,
                   contextCloses>>

\* for (const viewport of targetViewports): the viewport of the iteration in progress.
CurrentViewport == request.viewports[Len(response) + 1]

\* results.push(entry), then the next iteration or res.json after the last one.
PushResult(entry) ==
  /\ response' = Append(response, entry)
  /\ apiPc' = IF Len(response) + 1 = Len(request.viewports) THEN "responded" ELSE "received"

\* compare-multi, top of the loop body: await screenshotService.cleanup() is called
\* on the service the module-level variable holds.
ServerCleanupCall ==
  /\ apiPc = "received"
  /\ sessionPc = "idle"
  /\ launched < MaxLaunches
  /\ apiPc' = "cleanup"
  /\ sessionOp' = OpRecord("cleanup", "none")
  /\ sessionPc' = "closingContext"
  /\ UNCHANGED <<serverFixed, uiVars, serviceFields, viewportVars, request, response,
                 lastOp, disposed>>

\* screenshotService = new ScreenshotService(); await screenshotService.initialize():
\* the new service has no browser, so chromium.launch is awaited.
ServerNewService ==
  /\ apiPc = "cleanup"
  /\ sessionPc = "idle"
  /\ apiPc' = "initialize"
  /\ disposed' = FALSE
  /\ viewportWidth' = 0
  /\ viewportHeight' = 0
  /\ contextViewport' = NoViewport
  /\ lastViewportCall' = <<>>
  /\ sessionOp' = [OpRecord("initialize", "none") EXCEPT !.wasDisposed = FALSE]
  /\ sessionPc' = "launching"
  /\ UNCHANGED <<serverFixed, uiVars, serviceFields, request, response, lastOp>>

\* compare-multi after await screenshotService.initialize(): its rejection goes to
\* the catch of the loop body; otherwise setViewport is awaited, whose failure is
\* pushed as the result of the viewport, and then comparePages is called.
ServerSetViewport ==
  /\ apiPc = "initialize"
  /\ sessionPc = "idle"
  /\ LET width == CurrentViewport[1]
         height == CurrentViewport[2]
         invalid == ViewportValidation(width, height)
         call(outcome, after) == <<[width |-> width, height |-> height,
                                    outcome |-> outcome, before |-> ViewportState,
                                    after |-> after]>>
         failed(e) == PushResult([failed |-> TRUE,
                                  error |-> {"Viewport configuration failed"} \cup e])
     IN IF lastOp.outcome = "raised"
        THEN /\ PushResult([failed |-> TRUE, error |-> {"raw:newContext"}])
             /\ UNCHANGED viewportVars
        ELSE IF invalid # {}
        THEN /\ lastViewportCall' = call(invalid, ViewportState)
             /\ failed(invalid)
             /\ UNCHANGED <<viewportWidth, viewportHeight, contextViewport>>
        ELSE \/ /\ contextViewport' = <<width, height>>
                /\ viewportWidth' = width
                /\ viewportHeight' = height
                /\ lastViewportCall' = call({}, <<width, height, <<width, height>>>>)
                /\ apiPc' = "comparing"
                /\ UNCHANGED response
             \/ /\ lastViewportCall' = call({"raw:setViewportSize"}, ViewportState)
                /\ failed({"raw:setViewportSize"})
                /\ UNCHANGED <<viewportWidth, viewportHeight, contextViewport>>
  /\ UNCHANGED <<serverFixed, uiVars, serviceFields, request, sessionPc, sessionOp, lastOp,
                 disposed>>

\* compare-multi: await screenshotService.comparePages(...) returns a result, which
\* is pushed, or throws, which the catch of the loop body pushes as a failure.
ServerComparePages ==
  /\ apiPc = "comparing"
  /\ \/ PushResult([failed |-> FALSE, error |-> NoError])
     \/ \E e \in CaptureFailures : PushResult([failed |-> TRUE, error |-> e])
  /\ UNCHANGED <<serverFixed, uiVars, serviceFields, viewportVars, request, sessionPc,
                 sessionOp, lastOp, disposed>>

\* compare-ui: await screenshotService.comparePages(urlA, urlB, comparisonOptions) on
\* the service the module-level variable holds.  Both capturePage calls run to their
\* first pending await: this.context.newPage(), after an initialize() that returns
\* at once when the service has a browser and no context.
ServerCompareUi ==
  /\ cmp \in {"idle", "returned", "raised"}
  /\ \A p \in Pipelines : pc[p] \in {"idle", "returned", "threw"}
  /\ browser # 0 \/ context # 0
  /\ sessionPages + 2 <= 2 * MaxSessionPages
  /\ cmp' = "capturing"
  /\ cmpError' = NoError
  /\ pc' = [p \in Pipelines |-> "newPage"]
  /\ page' = [p \in Pipelines |-> "none"]
  /\ thrown' = [p \in Pipelines |-> NoError]
  /\ pageOf' = [p \in Pipelines |-> [id |-> 0, context |-> context]]
  /\ UNCHANGED <<serverFixed, sessionPages, serviceFields, viewportVars, apiVars,
                 sessionPc, sessionOp, lastOp, disposed>>

\* capturePage of pipeline p throws: Promise.all rejects with the first error.
ServerThrows(p, e) ==
  /\ Goes(p, "threw")
  /\ thrown' = [thrown EXCEPT ![p] = e]
  /\ IF cmp = "capturing"
     THEN cmp' = "raised" /\ cmpError' = e
     ELSE UNCHANGED <<cmp, cmpError>>

\* const page = await this.context.newPage() of pipeline p, outside the try: a
\* TypeError on a null context, a rejection when the context has been closed.
ServerNewPage(p) ==
  /\ pc[p] = "newPage"
  /\ IF pageOf[p].context = 0
     THEN ServerThrows(p, {"TypeError"}) /\ UNCHANGED <<page, pageOf, sessionPages>>
     ELSE IF pageOf[p].context \notin liveContexts
     THEN ServerThrows(p, {"raw:newPage"}) /\ UNCHANGED <<page, pageOf, sessionPages>>
     ELSE /\ sessionPages' = sessionPages + 1
          /\ pageOf' = [pageOf EXCEPT ![p].id = sessionPages + 1]
          /\ page' = [page EXCEPT ![p] = "open"]
          /\ Goes(p, "setup")
          /\ UNCHANGED <<cmp, cmpError, thrown>>
  /\ UNCHANGED <<serverFixed, serviceFields, viewportVars, apiVars, sessionPc, sessionOp,
                 lastOp, disposed>>

\* The rest of capturePage on the page of pipeline p: it returns a result or throws,
\* and the page is closed either way; comparePages returns when both have returned.
ServerCapture(p) ==
  /\ pc[p] = "setup"
  /\ page' = [page EXCEPT ![p] = "closed"]
  /\ \/ /\ Goes(p, "returned")
        /\ cmp' = IF cmp = "capturing" /\ pc[Other(p)] = "returned" THEN "returned" ELSE cmp
        /\ UNCHANGED <<cmpError, thrown>>
     \/ ServerThrows(p, EnhanceError(p, {"raw:setup"}))
  /\ UNCHANGED <<serverFixed, pageOf, sessionPages, serviceFields, viewportVars, apiVars,
                 sessionPc, sessionOp, lastOp, disposed>>

NextServer ==
  \/ ServerCleanupCall \/ CleanupContext \/ CleanupBrowser
  \/ ServerNewService \/ Launch \/ CreateContext
  \/ ServerSetViewport \/ ServerComparePages
  \/ ServerCompareUi
  \/ \E p \in Pipelines : ServerNewPage(p)
  \/ \E p \in Pipelines : ServerCapture(p)

SpecServer == InitServer /\ [][NextServer]_vars

(***************************************************************************)
(* Properties of the shared service under concurrent requests (SpecServer) *)
(***************************************************************************)
\* A capturePage call of pipeline p is running on the service of browser `id`.
CaptureRunningOn(p, id) == pc[p] \in {"newPage", "setup"} /\ pageOf[p].context = id

\* C37: while a capturePage call is running on a service, no cleanup() is being
\* executed on that service and the context and the browser of that service are
\* not closed.
C37_NoCleanupDuringCapture ==
  \A p \in Pipelines : \A id \in BrowserIds :
    CaptureRunningOn(p, id) =>
      /\ ~(sessionOp.name = "cleanup" /\ browser = id)
      /\ id \in liveContexts
      /\ id \in liveBrowsers

====
